---- MODULE Spec2Model ----
(***************************************************************************)
(* A model of the monkey_lang interpreter: the lexer, the Pratt parser,    *)
(* the tree-walking evaluator with its environment chain, the built-ins    *)
(* and the REPL driver.  Source text is a TLA+ string; the lexer reads it  *)
(* one byte at a time, as the Go code does.                                *)
(***************************************************************************)
EXTENDS Integers, Sequences, FiniteSets, TLC

\* -------------------------------------------------------------------------
\* Go's nil.  An AST node is a record tagged by `node`, a runtime object a
\* record tagged by `Type`.  NilNode is the nil interface value; TypedNil is
\* a nil pointer stored in an interface (which compares unequal to nil).
\* -------------------------------------------------------------------------
NilNode == [node |-> "nil"]

TypedNil(ptr) == [node |-> "nil", ptr |-> ptr]

NilObject == [Type |-> "nil"]

\* x := v in F(x): v is computed once, whatever use F makes of x
Let(v, F(_)) == F(v)

\* x := v; F(x): as Let, and v is computed before F(x) is.  The driver uses
\* it for the lexer's and the parser's runs, each over before the next starts.
Then(v, F(_)) == CHOOSE y \in {F(x) : x \in {v}} : TRUE

\* -------------------------------------------------------------------------
\* Token kinds (tokens.go)
\* -------------------------------------------------------------------------
TokenType ==
  [ILLEGAL |-> "ILLEGAL", EOF |-> "EOF",
   IDENT |-> "IDENT", INT |-> "INT", FLOAT |-> "FLOAT", STRING_T |-> "STRING",
   ASSIGN |-> "=", PLUS |-> "+", MINUS |-> "-", ASTERIX |-> "*", SLASH |-> "/",
   BANG |-> "!", EQ |-> "==", NOTEQ |-> "!=", LT |-> "<", GT |-> ">", LTEQ |-> "<=", GTEQ |-> ">=",
   COMMA |-> ",", SEMICOLON |-> ";",
   LPAREN |-> "(", RPAREN |-> ")", LBRACE |-> "{", RBRACE |-> "}", LBRACKET |-> "[", RBRACKET |-> "]",
   FUNCTION |-> "FUNCTION", LET_T |-> "LET", IF_T |-> "IF", ELSE_T |-> "ELSE", TRUE_T |-> "TRUE", FALSE_T |-> "FALSE", RETURN |-> "RETURN"]

Token(tokenType, literal, line, column) ==
  [tokenType |-> tokenType, literal |-> literal, line |-> line, column |-> column]

lookupIdent(ident) ==
  CASE ident = "fn" -> TokenType.FUNCTION
    [] ident = "let" -> TokenType.LET_T
    [] ident = "if" -> TokenType.IF_T
    [] ident = "else" -> TokenType.ELSE_T
    [] ident = "true" -> TokenType.TRUE_T
    [] ident = "false" -> TokenType.FALSE_T
    [] ident = "return" -> TokenType.RETURN
    [] OTHER -> TokenType.IDENT

\* -------------------------------------------------------------------------
\* Lexer (lexer.go).  idx and peek are the Go code's 0-based byte offsets.
\* END stands for the byte 0 that readChar stores at the end of the input.
\* -------------------------------------------------------------------------
END == ""

LowerCase == {"a","b","c","d","e","f","g","h","i","j","k","l","m",
              "n","o","p","q","r","s","t","u","v","w","x","y","z"}
UpperCase == {"A","B","C","D","E","F","G","H","I","J","K","L","M",
              "N","O","P","Q","R","S","T","U","V","W","X","Y","Z"}
DecimalDigits == {"0","1","2","3","4","5","6","7","8","9"}

\* input[i] for a 0-based offset i
ByteAt(input, i) == SubSeq(input, i + 1, i + 1)

\* input[from:to] for 0-based offsets
Slice(input, from, to) == SubSeq(input, from + 1, to)

setLineCol(l) ==
  IF l.ch = "\n"
  THEN [l EXCEPT !.line = l.line + 1, !.column = 1]
  ELSE [l EXCEPT !.column = l.column + 1]

readChar(l) ==
  setLineCol([l EXCEPT !.ch = IF l.peek >= l.length THEN END ELSE ByteAt(l.input, l.peek),
                       !.idx = l.peek,
                       !.peek = l.peek + 1])

newLexer(input) ==
  readChar([input |-> input, idx |-> 0, peek |-> 0, line |-> 1, column |-> 0,
            length |-> Len(input), ch |-> END])

isDigit(l) == l.ch \in DecimalDigits \/ l.ch = "."

isLetter(l) == l.ch \in LowerCase \/ l.ch \in UpperCase \/ l.ch = "_"

RECURSIVE skipWhitespace(_)
skipWhitespace(l) ==
  IF l.ch \in {"\n", " ", "\t", "\r"} THEN skipWhitespace(readChar(l)) ELSE l

\* readLiteral returns the lexer after the loop; the literal is the slice
\* input[start:idx].  digits selects the isDigit or the isLetter condition.
RECURSIVE readLiteralLoop(_, _)
readLiteralLoop(l, digits) ==
  IF (IF digits THEN isDigit(l) ELSE isLetter(l)) /\ l.ch # END
  THEN readLiteralLoop(readChar(l), digits)
  ELSE l

readLiteral(l, digits) ==
  LET l2 == readLiteralLoop(l, digits)
  IN [lexer |-> l2, literal |-> Slice(l.input, l.idx, l2.idx)]

RECURSIVE readStringLoop(_)
readStringLoop(l) ==
  LET l2 == readChar(l)
  IN IF l2.ch = "\"" \/ l2.ch = END THEN l2 ELSE readStringLoop(l2)

readString(l) ==
  LET l2 == readStringLoop(l)
  IN [lexer |-> l2, literal |-> Slice(l.input, l.peek, l2.idx)]

makeToken(l, tokenType) ==
  [tok |-> Token(tokenType, l.ch, l.line, l.column), lexer |-> readChar(l)]

makeTwoCharToken(l, singleType, secondType) ==
  IF l.peek < l.length /\ ByteAt(l.input, l.peek) = "="
  THEN [tok |-> Token(secondType, l.ch \o "=", l.line, l.column),
        lexer |-> readChar(readChar(l))]
  ELSE makeToken(l, singleType)

lexString(l) ==
  LET r == readString(l)
  IN [tok |-> Token(TokenType.STRING_T, r.literal, l.line, l.column), lexer |-> readChar(r.lexer)]

lexNumber(l) ==
  LET r == readLiteral(l, TRUE)
      hasDot == \E i \in 1..Len(r.literal) : SubSeq(r.literal, i, i) = "."
  IN [tok |-> Token(IF hasDot THEN TokenType.FLOAT ELSE TokenType.INT, r.literal, l.line, l.column),
      lexer |-> r.lexer]

lexIdentKeyword(l) ==
  LET r == readLiteral(l, FALSE)
  IN [tok |-> Token(lookupIdent(r.literal), r.literal, l.line, l.column),
      lexer |-> r.lexer]

lexOther(l) ==
  IF isDigit(l) THEN lexNumber(l)
  ELSE IF isLetter(l) THEN lexIdentKeyword(l)
  ELSE makeToken(l, TokenType.ILLEGAL)

Lexer_nextToken(l0) ==
  Let(skipWhitespace(l0), LAMBDA l :
     CASE l.ch = "=" -> makeTwoCharToken(l, TokenType.ASSIGN, TokenType.EQ)
       [] l.ch = "!" -> makeTwoCharToken(l, TokenType.BANG, TokenType.NOTEQ)
       [] l.ch = ">" -> makeTwoCharToken(l, TokenType.GT, TokenType.GTEQ)
       [] l.ch = "<" -> makeTwoCharToken(l, TokenType.LT, TokenType.LTEQ)
       [] l.ch = "+" -> makeToken(l, TokenType.PLUS)
       [] l.ch = "-" -> makeToken(l, TokenType.MINUS)
       [] l.ch = "*" -> makeToken(l, TokenType.ASTERIX)
       [] l.ch = "/" -> makeToken(l, TokenType.SLASH)
       [] l.ch = ";" -> makeToken(l, TokenType.SEMICOLON)
       [] l.ch = "," -> makeToken(l, TokenType.COMMA)
       [] l.ch = "(" -> makeToken(l, TokenType.LPAREN)
       [] l.ch = ")" -> makeToken(l, TokenType.RPAREN)
       [] l.ch = "{" -> makeToken(l, TokenType.LBRACE)
       [] l.ch = "}" -> makeToken(l, TokenType.RBRACE)
       [] l.ch = "[" -> makeToken(l, TokenType.LBRACKET)
       [] l.ch = "]" -> makeToken(l, TokenType.RBRACKET)
       [] l.ch = "\"" -> lexString(l)
       [] l.ch = END -> makeToken(l, TokenType.EOF)
       [] OTHER -> lexOther(l))

\* -------------------------------------------------------------------------
\* Parser (parser.go).  A parsing function takes the parser state p and
\* returns [p |-> the state after it, node |-> what it returns].
\* -------------------------------------------------------------------------
LOWEST == 0
EQUALS == 1
LESSGREATER == 2
SUM == 3
PRODUCT == 4
PREFIX == 5
CALL == 6
INDEX == 7

\* Width of the model's machine integer (int64 in the Go code).
IntBits == 16

MaxInt == 2 ^ (IntBits - 1) - 1

MinInt == 0 - 2 ^ (IntBits - 1)

\* Two's-complement wrap-around of Go's integer arithmetic
wrap(n) == ((n - MinInt) % (2 ^ IntBits)) + MinInt

\* The number of steps a run of the lexer, of the parser or of the evaluator
\* may take is 2 ^ StepBits.
StepBits == 11

\* The parser does nothing with its lexer but call nextToken, and what the
\* calls return depends on the input alone.  The model runs the lexer over
\* the input up to the first EOF and keeps, as the parser's lexer, the tokens
\* and the number of them that nextToken has handed out.
LexStep(st) ==
  IF st.done THEN st
  ELSE Let(Lexer_nextToken(st.lexer), LAMBDA r :
         [lexer |-> r.lexer, tokens |-> Append(st.tokens, r.tok),
          done |-> r.tok.tokenType = TokenType.EOF])

\* A run that has reached h goes on for 2 ^ k steps more unless it is over.
Continue(h, k, Over(_), Run(_, _)) == IF Over(h) THEN h ELSE Run(h, k)

\* LexStep repeated until EOF, 2 ^ k times at most
RECURSIVE RunLexer(_, _)
RunLexer(st, k) ==
  IF k = 0 THEN LexStep(st)
  ELSE Continue(RunLexer(st, k - 1), k - 1, LAMBDA h : h.done, RunLexer)

Lexer_tokens(lexer) ==
  [tokens |-> RunLexer([lexer |-> lexer, tokens |-> <<>>, done |-> FALSE], StepBits).tokens,
   read |-> 0]

\* The n-th token nextToken returns.  At the end of the input every call
\* returns EOF again, one column further (readChar keeps counting).
TokenAt(tokens, n) ==
  IF n <= Len(tokens) THEN tokens[n]
  ELSE [tokens[Len(tokens)] EXCEPT !.column = @ + (n - Len(tokens))]

Parser_nextToken(p) ==
  [p EXCEPT !.cur = p.peek,
            !.peek = TokenAt(p.lexer.tokens, p.lexer.read + 1),
            !.lexer.read = p.lexer.read + 1]

newParser(lexer) ==
  Parser_nextToken(Parser_nextToken(
    [lexer |-> Lexer_tokens(lexer), cur |-> Token("", "", 0, 0),
     peek |-> Token("", "", 0, 0), errors |-> <<>>]))

noPrefixParsingFnError(p, tokenType) ==
  [p EXCEPT !.errors = Append(p.errors,
     "Error: no prefix parsing fn found for -> { " \o tokenType \o " }. On line "
       \o ToString(p.cur.line) \o ", column " \o ToString(p.cur.column))]

numberParsingError(p) ==
  [p EXCEPT !.errors = Append(p.errors,
     "Error: could not parse -> { " \o p.cur.literal \o " } into a number. On line "
       \o ToString(p.cur.line) \o " , column " \o ToString(p.cur.column) \o ".")]

peekError(p, expected) ==
  [p EXCEPT !.errors = Append(p.errors,
     "Error: got wrong expected type -> { " \o p.peek.tokenType \o " }, wanted -> { "
       \o expected \o " }. On line: " \o ToString(p.peek.line) \o ", column "
       \o ToString(p.peek.column) \o ". ")]

expectPeek(p, expected) ==
  IF p.peek.tokenType = expected
  THEN [p |-> Parser_nextToken(p), ok |-> TRUE]
  ELSE [p |-> peekError(p, expected), ok |-> FALSE]

getPrec(tokenType) ==
  CASE tokenType \in {TokenType.EQ, TokenType.NOTEQ} -> EQUALS
    [] tokenType \in {TokenType.LT, TokenType.LTEQ, TokenType.GT, TokenType.GTEQ} -> LESSGREATER
    [] tokenType \in {TokenType.PLUS, TokenType.MINUS} -> SUM
    [] tokenType \in {TokenType.SLASH, TokenType.ASTERIX} -> PRODUCT
    [] tokenType = TokenType.LPAREN -> CALL
    [] tokenType = TokenType.LBRACKET -> INDEX
    [] OTHER -> LOWEST

\* getInfixFn and getPrefixFn return the name of the parsing function, "nil"
\* for none.
getInfixFn(tokenType) ==
  CASE tokenType \in {TokenType.PLUS, TokenType.MINUS, TokenType.SLASH, TokenType.ASTERIX, TokenType.EQ, TokenType.NOTEQ, TokenType.LT, TokenType.LTEQ, TokenType.GT, TokenType.GTEQ}
         -> "parseInfixExpression"
    [] tokenType = TokenType.LPAREN -> "parseCallExpression"
    [] tokenType = TokenType.LBRACKET -> "parseIndexExpression"
    [] OTHER -> "nil"

getPrefixFn(tokenType) ==
  CASE tokenType \in {TokenType.BANG, TokenType.MINUS} -> "parsePrefixExpression"
    [] tokenType \in {TokenType.FALSE_T, TokenType.TRUE_T} -> "parseBooleanLiteral"
    [] tokenType = TokenType.FLOAT -> "parseFloatLiteral"
    [] tokenType = TokenType.FUNCTION -> "parseFunctionLiteral"
    [] tokenType = TokenType.IDENT -> "parseIdentifier"
    [] tokenType = TokenType.IF_T -> "parseIfExpression"
    [] tokenType = TokenType.INT -> "parseIntegerLiteral"
    [] tokenType = TokenType.LBRACKET -> "parseArrayLiteral"
    [] tokenType = TokenType.LPAREN -> "parseGroupedExpr"
    [] tokenType = TokenType.STRING_T -> "parseStringLiteral"
    [] OTHER -> "nil"

\* The value of one decimal digit
DigitVal(c) ==
  CASE c = "0" -> 0 [] c = "1" -> 1 [] c = "2" -> 2 [] c = "3" -> 3 [] c = "4" -> 4
    [] c = "5" -> 5 [] c = "6" -> 6 [] c = "7" -> 7 [] c = "8" -> 8 [] c = "9" -> 9

\* strconv.ParseInt(literal, 0, 64) on a literal of decimal digits: base 8
\* after a leading 0, base 10 otherwise; err for a digit outside the base or
\* a value beyond the integer width.
RECURSIVE ParseDigits(_, _, _, _)
ParseDigits(literal, i, base, acc) ==
  IF i > Len(literal) THEN [value |-> acc, err |-> FALSE]
  ELSE LET d == DigitVal(SubSeq(literal, i, i))
       IN IF d >= base \/ acc * base + d > MaxInt
          THEN [value |-> 0, err |-> TRUE]
          ELSE ParseDigits(literal, i + 1, base, acc * base + d)

ParseInt(literal) ==
  IF Len(literal) > 1 /\ SubSeq(literal, 1, 1) = "0"
  THEN ParseDigits(literal, 2, 8, 0)
  ELSE ParseDigits(literal, 1, 10, 0)

\* A float64 is modelled as the exact fraction num/den in lowest terms.
RECURSIVE GCD(_, _)
GCD(a, b) == IF b = 0 THEN a ELSE GCD(b, a % b)

Abs(n) == IF n < 0 THEN 0 - n ELSE n

Frac(num, den) ==
  LET g == GCD(Abs(num), Abs(den))
      sgn == IF den < 0 THEN 0 - 1 ELSE 1
  IN [num |-> sgn * (num \div g), den |-> sgn * (den \div g)]

\* strconv.ParseFloat on a literal of decimal digits and dots: err unless
\* there is exactly one dot and at least one digit.
RECURSIVE ParseFloatDigits(_, _, _, _, _)
ParseFloatDigits(literal, i, num, den, dots) ==
  IF i > Len(literal)
  THEN IF dots # 1 \/ Len(literal) < 2
       THEN [value |-> Frac(0, 1), err |-> TRUE]
       ELSE [value |-> Frac(num, den), err |-> FALSE]
  ELSE LET c == SubSeq(literal, i, i)
       IN IF c = "."
          THEN ParseFloatDigits(literal, i + 1, num, den, dots + 1)
          ELSE ParseFloatDigits(literal, i + 1, num * 10 + DigitVal(c),
                                IF dots > 0 THEN den * 10 ELSE den, dots)

ParseFloat(literal) == ParseFloatDigits(literal, 1, 0, 1, 0)

\* -------------------------------------------------------------------------
\* Calls in progress.  The parsing functions and the evaluating functions
\* call one another recursively; the model keeps the calls in progress on a
\* stack.  A call is the function's name, its arguments, its local variables
\* and pc, the position reached in its body: 0 is its first line, n > 0 is
\* just after its n-th call of a function that is on the stack.  val holds
\* what the call that ended last has returned.
\* -------------------------------------------------------------------------
Invoke(fn, args) == [fn |-> fn, pc |-> 0, args |-> args, v |-> <<>>]

\* f calls callee and waits at pc with the local variables v
Call(m, f, pc, v, callee) ==
  [m EXCEPT !.stack = Append([m.stack EXCEPT ![Len(m.stack)] = [f EXCEPT !.pc = pc, !.v = v]],
                             callee)]

\* return val
Return(m, val) ==
  [m EXCEPT !.stack = SubSeq(m.stack, 1, Len(m.stack) - 1), !.val = val]

\* return callee(...)
TailCall(m, callee) == [m EXCEPT !.stack[Len(m.stack)] = callee]

\* A parseProgram whose loop does not call nextToken
parseProgram_noAdvance(m, f) ==
  LET stmts == IF f.pc = 0 THEN <<>>
               ELSE IF m.val # NilNode THEN Append(f.v.stmts, m.val)
               ELSE f.v.stmts
  IN IF m.p.cur.tokenType # TokenType.EOF
     THEN Call(m, f, 1, [stmts |-> stmts], Invoke("parseStatement", <<>>))
     ELSE Return(m, [node |-> "Program", statements |-> stmts])

parseProgram(m, f) ==
  LET stmts == IF f.pc = 0 THEN <<>>
               ELSE IF m.val # NilNode THEN Append(f.v.stmts, m.val)
               ELSE f.v.stmts
      p == IF f.pc = 0 THEN m.p ELSE Parser_nextToken(m.p)
  IN IF p.cur.tokenType # TokenType.EOF
     THEN Call([m EXCEPT !.p = p], f, 1, [stmts |-> stmts], Invoke("parseStatement", <<>>))
     ELSE Return([m EXCEPT !.p = p], [node |-> "Program", statements |-> stmts])

parseStatement(m, f) ==
  CASE m.p.cur.tokenType = TokenType.LET_T -> TailCall(m, Invoke("parseLetStatement", <<>>))
    [] m.p.cur.tokenType = TokenType.RETURN -> TailCall(m, Invoke("parseReturnStatement", <<>>))
    [] OTHER -> TailCall(m, Invoke("parseExpressionStatement", <<>>))

parseBlockStatement(m, f) ==
  LET token == IF f.pc = 0 THEN m.p.cur ELSE f.v.token
      stmts == IF f.pc = 0 THEN <<>>
               ELSE IF m.val # NilNode THEN Append(f.v.stmts, m.val)
               ELSE f.v.stmts
      p == Parser_nextToken(m.p)
  IN IF p.cur.tokenType # TokenType.RBRACE /\ p.cur.tokenType # TokenType.EOF
     THEN Call([m EXCEPT !.p = p], f, 1, [token |-> token, stmts |-> stmts],
               Invoke("parseStatement", <<>>))
     ELSE Return([m EXCEPT !.p = p],
                 [node |-> "BlockStatement", token |-> token, statements |-> stmts])

\* if p.peek.tokenType == SEMICOLON { p.nextToken() }
skipSemicolon(p) == IF p.peek.tokenType = TokenType.SEMICOLON THEN Parser_nextToken(p) ELSE p

parseExpressionStatement(m, f) ==
  IF f.pc = 0
  THEN Call(m, f, 1, [token |-> m.p.cur], Invoke("parseExpression", [prec |-> LOWEST]))
  ELSE Return([m EXCEPT !.p = skipSemicolon(m.p)],
              [node |-> "ExpressionStatement", token |-> f.v.token, expression |-> m.val])

parseLetStatement(m, f) ==
  IF f.pc = 0
  THEN LET e1 == expectPeek(m.p, TokenType.IDENT)
           name == [node |-> "Identifier", token |-> e1.p.cur, value |-> e1.p.cur.literal]
           e2 == expectPeek(e1.p, TokenType.ASSIGN)
       IN CASE ~e1.ok -> Return([m EXCEPT !.p = e1.p], TypedNil("*LetStatement"))
            [] ~e2.ok -> Return([m EXCEPT !.p = e2.p], TypedNil("*LetStatement"))
            [] OTHER -> Call([m EXCEPT !.p = Parser_nextToken(e2.p)], f, 1,
                             [token |-> m.p.cur, name |-> name],
                             Invoke("parseExpression", [prec |-> LOWEST]))
  ELSE Return([m EXCEPT !.p = skipSemicolon(m.p)],
              [node |-> "LetStatement", token |-> f.v.token, name |-> f.v.name,
               value |-> m.val])

parseReturnStatement(m, f) ==
  IF f.pc = 0
  THEN Call([m EXCEPT !.p = Parser_nextToken(m.p)], f, 1, [token |-> m.p.cur],
            Invoke("parseExpression", [prec |-> LOWEST]))
  ELSE Return([m EXCEPT !.p = skipSemicolon(m.p)],
              [node |-> "ReturnStatement", token |-> f.v.token, value |-> m.val])

\* the loop of parseExpression, entered with leftExpr
parseExpressionLoop(m, f, leftExpr) ==
  IF m.p.peek.tokenType # TokenType.SEMICOLON /\ f.args.prec < getPrec(m.p.peek.tokenType)
  THEN LET infix == getInfixFn(m.p.peek.tokenType)
       IN IF infix = "nil" THEN Return(m, leftExpr)
          ELSE Call([m EXCEPT !.p = Parser_nextToken(m.p)], f, 1, <<>>,
                    Invoke(infix, [left |-> leftExpr]))
  ELSE Return(m, leftExpr)

parseExpression(m, f) ==
  IF f.pc = 0
  THEN LET prefix == getPrefixFn(m.p.cur.tokenType)
       IN IF prefix = "nil"
          THEN Return([m EXCEPT !.p = noPrefixParsingFnError(m.p, m.p.cur.tokenType)], NilNode)
          ELSE Call(m, f, 1, <<>>, Invoke(prefix, <<>>))
  ELSE parseExpressionLoop(m, f, m.val)

parseArrayLiteral(m, f) ==
  IF f.pc = 0
  THEN Call(m, f, 1, [token |-> m.p.cur], Invoke("parseExpressionList", [end |-> TokenType.RBRACKET]))
  ELSE Return(m, [node |-> "ArrayLiteral", token |-> f.v.token, elements |-> m.val])

parseBooleanLiteral(m, f) ==
  Return(m, [node |-> "BooleanLiteral", token |-> m.p.cur,
             value |-> (m.p.cur.tokenType = TokenType.TRUE_T)])

parseCallExpression(m, f) ==
  IF f.pc = 0
  THEN Call(m, f, 1, [token |-> m.p.cur], Invoke("parseExpressionList", [end |-> TokenType.RPAREN]))
  ELSE Return(m, [node |-> "CallExpression", token |-> f.v.token,
                  function |-> f.args.left, arguments |-> m.val])

\* A failed expectPeek returns the nil slice, which is the empty list.
parseExpressionList(m, f) ==
  IF f.pc = 0 /\ m.p.peek.tokenType = f.args.end
  THEN Return([m EXCEPT !.p = Parser_nextToken(m.p)], <<>>)
  ELSE IF f.pc = 0
  THEN Call([m EXCEPT !.p = Parser_nextToken(m.p)], f, 1, [list |-> <<>>],
            Invoke("parseExpression", [prec |-> LOWEST]))
  ELSE LET list == Append(f.v.list, m.val)
           e == expectPeek(m.p, f.args.end)
       IN IF m.p.peek.tokenType = TokenType.COMMA
          THEN Call([m EXCEPT !.p = Parser_nextToken(Parser_nextToken(m.p))], f, 1,
                    [list |-> list], Invoke("parseExpression", [prec |-> LOWEST]))
          ELSE Return([m EXCEPT !.p = e.p], IF e.ok THEN list ELSE <<>>)

parseFloatLiteral(m, f) ==
  LET r == ParseFloat(m.p.cur.literal)
  IN IF r.err THEN Return([m EXCEPT !.p = numberParsingError(m.p)], NilNode)
     ELSE Return(m, [node |-> "FloatLiteral", token |-> m.p.cur, value |-> r.value])

RECURSIVE parseFunctionParametersLoop(_, _)
parseFunctionParametersLoop(p, idents) ==
  IF p.peek.tokenType = TokenType.COMMA
  THEN Then(Parser_nextToken(Parser_nextToken(p)), LAMBDA p2 :
         parseFunctionParametersLoop(p2,
           Append(idents, [node |-> "Identifier", token |-> p2.cur, value |-> p2.cur.literal])))
  ELSE [p |-> p, list |-> idents]

parseFunctionParameters(p) ==
  IF p.peek.tokenType = TokenType.RPAREN
  THEN [p |-> Parser_nextToken(p), list |-> <<>>]
  ELSE Then(Parser_nextToken(p), LAMBDA p2 :
         Then(parseFunctionParametersLoop(p2,
                <<[node |-> "Identifier", token |-> p2.cur, value |-> p2.cur.literal]>>),
              LAMBDA l :
                Then(expectPeek(l.p, TokenType.RPAREN), LAMBDA e :
                  IF ~e.ok THEN [p |-> e.p, list |-> <<>>]
                  ELSE [p |-> e.p, list |-> l.list])))

parseFunctionLiteral(m, f) ==
  IF f.pc = 0
  THEN Then(expectPeek(m.p, TokenType.LPAREN), LAMBDA e1 :
         IF ~e1.ok THEN Return([m EXCEPT !.p = e1.p], NilNode)
         ELSE Then(parseFunctionParameters(e1.p), LAMBDA params :
                Then(expectPeek(params.p, TokenType.LBRACE), LAMBDA e2 :
                  IF ~e2.ok THEN Return([m EXCEPT !.p = e2.p], NilNode)
                  ELSE Call([m EXCEPT !.p = e2.p], f, 1,
                            [token |-> m.p.cur, parameters |-> params.list],
                            Invoke("parseBlockStatement", <<>>)))))
  ELSE Return(m, [node |-> "FunctionLiteral", token |-> f.v.token,
                  parameters |-> f.v.parameters, body |-> m.val])

parseGroupedExpr(m, f) ==
  IF f.pc = 0
  THEN Call([m EXCEPT !.p = Parser_nextToken(m.p)], f, 1, <<>>,
            Invoke("parseExpression", [prec |-> LOWEST]))
  ELSE LET e == expectPeek(m.p, TokenType.RPAREN)
       IN Return([m EXCEPT !.p = e.p], IF e.ok THEN m.val ELSE NilNode)

parseIdentifier(m, f) ==
  Return(m, [node |-> "Identifier", token |-> m.p.cur, value |-> m.p.cur.literal])

parseIfExpression(m, f) ==
  CASE f.pc = 0 ->
         LET e1 == expectPeek(m.p, TokenType.LPAREN)
         IN IF ~e1.ok THEN Return([m EXCEPT !.p = e1.p], NilNode)
            ELSE Call([m EXCEPT !.p = Parser_nextToken(e1.p)], f, 1, [token |-> m.p.cur],
                      Invoke("parseExpression", [prec |-> LOWEST]))
    [] f.pc = 1 ->
         LET e2 == expectPeek(m.p, TokenType.RPAREN)
             e3 == expectPeek(e2.p, TokenType.LBRACE)
         IN (CASE ~e2.ok -> Return([m EXCEPT !.p = e2.p], NilNode)
              [] ~e3.ok -> Return([m EXCEPT !.p = e3.p], NilNode)
              [] OTHER -> Call([m EXCEPT !.p = e3.p], f, 2,
                               [token |-> f.v.token, condition |-> m.val],
                               Invoke("parseBlockStatement", <<>>)))
    [] f.pc = 2 ->
         LET e4 == expectPeek(Parser_nextToken(m.p), TokenType.LBRACE)
         IN (CASE m.p.peek.tokenType # TokenType.ELSE_T ->
                   Return(m, [node |-> "IfExpression", token |-> f.v.token,
                              condition |-> f.v.condition, consequence |-> m.val,
                              alternative |-> NilNode])
              [] ~e4.ok -> Return([m EXCEPT !.p = e4.p], NilNode)
              [] OTHER -> Call([m EXCEPT !.p = e4.p], f, 3,
                               [token |-> f.v.token, condition |-> f.v.condition,
                                consequence |-> m.val],
                               Invoke("parseBlockStatement", <<>>)))
    [] f.pc = 3 ->
         Return(m, [node |-> "IfExpression", token |-> f.v.token,
                    condition |-> f.v.condition, consequence |-> f.v.consequence,
                    alternative |-> m.val])

parseIndexExpression(m, f) ==
  IF f.pc = 0
  THEN Call([m EXCEPT !.p = Parser_nextToken(m.p)], f, 1, [token |-> m.p.cur],
            Invoke("parseExpression", [prec |-> LOWEST]))
  ELSE LET e == expectPeek(m.p, TokenType.RBRACKET)
       IN Return([m EXCEPT !.p = e.p],
                 IF e.ok THEN [node |-> "IndexExpression", token |-> f.v.token,
                               left |-> f.args.left, index |-> m.val]
                 ELSE NilNode)

\* A parseInfixExpression that lets an operator of the same precedence bind
\* the right operand first
parseInfixExpression_rightFirst(m, f) ==
  IF f.pc = 0
  THEN Call([m EXCEPT !.p = Parser_nextToken(m.p)], f, 1, [token |-> m.p.cur],
            Invoke("parseExpression", [prec |-> getPrec(m.p.cur.tokenType) - 1]))
  ELSE Return(m, [node |-> "InfixExpression", token |-> f.v.token,
                  operator |-> f.v.token.literal, left |-> f.args.left, right |-> m.val])

parseInfixExpression(m, f) ==
  IF f.pc = 0
  THEN Call([m EXCEPT !.p = Parser_nextToken(m.p)], f, 1, [token |-> m.p.cur],
            Invoke("parseExpression", [prec |-> getPrec(m.p.cur.tokenType)]))
  ELSE Return(m, [node |-> "InfixExpression", token |-> f.v.token,
                  operator |-> f.v.token.literal, left |-> f.args.left, right |-> m.val])

parseIntegerLiteral(m, f) ==
  LET r == ParseInt(m.p.cur.literal)
  IN IF r.err THEN Return([m EXCEPT !.p = numberParsingError(m.p)], NilNode)
     ELSE Return(m, [node |-> "IntegerLiteral", token |-> m.p.cur, value |-> r.value])

parsePrefixExpression(m, f) ==
  IF f.pc = 0
  THEN Call([m EXCEPT !.p = Parser_nextToken(m.p)], f, 1, [token |-> m.p.cur],
            Invoke("parseExpression", [prec |-> PREFIX]))
  ELSE Return(m, [node |-> "PrefixExpression", token |-> f.v.token,
                  operator |-> f.v.token.literal, right |-> m.val])

parseStringLiteral(m, f) ==
  Return(m, [node |-> "StringLiteral", token |-> m.p.cur, value |-> m.p.cur.literal])

\* One step of the parser: the function on top of the stack runs up to its
\* next call or to its return.
ParserStep(m) ==
  Let(m.stack[Len(m.stack)], LAMBDA f :
     CASE f.fn = "parseExpression" -> parseExpression(m, f)
       [] f.fn = "parseIdentifier" -> parseIdentifier(m, f)
       [] f.fn = "parseIntegerLiteral" -> parseIntegerLiteral(m, f)
       [] f.fn = "parseStatement" -> parseStatement(m, f)
       [] f.fn = "parseExpressionStatement" -> parseExpressionStatement(m, f)
       [] f.fn = "parseExpressionList" -> parseExpressionList(m, f)
       [] f.fn = "parseCallExpression" -> parseCallExpression(m, f)
       [] f.fn = "parseInfixExpression" -> parseInfixExpression(m, f)
       [] f.fn = "parseBlockStatement" -> parseBlockStatement(m, f)
       [] f.fn = "parseLetStatement" -> parseLetStatement(m, f)
       [] f.fn = "parseReturnStatement" -> parseReturnStatement(m, f)
       [] f.fn = "parseFunctionLiteral" -> parseFunctionLiteral(m, f)
       [] f.fn = "parseIfExpression" -> parseIfExpression(m, f)
       [] f.fn = "parseArrayLiteral" -> parseArrayLiteral(m, f)
       [] f.fn = "parseIndexExpression" -> parseIndexExpression(m, f)
       [] f.fn = "parseGroupedExpr" -> parseGroupedExpr(m, f)
       [] f.fn = "parsePrefixExpression" -> parsePrefixExpression(m, f)
       [] f.fn = "parseBooleanLiteral" -> parseBooleanLiteral(m, f)
       [] f.fn = "parseStringLiteral" -> parseStringLiteral(m, f)
       [] f.fn = "parseFloatLiteral" -> parseFloatLiteral(m, f)
       [] f.fn = "parseProgram" -> parseProgram(m, f))

\* ParserStep repeated until no call is left, 2 ^ k times at most
RECURSIVE RunParser(_, _)
RunParser(m, k) ==
  IF k = 0 THEN ParserStep(m)
  ELSE Continue(RunParser(m, k - 1), k - 1, LAMBDA h : h.stack = <<>>, RunParser)

\* program := parser.parseProgram(): the parser afterwards, and the program
Parse(p) ==
  Let(RunParser([p |-> p, stack |-> <<Invoke("parseProgram", <<>>)>>, val |-> NilNode],
                StepBits),
      LAMBDA m : [p |-> m.p, node |-> m.val, finished |-> m.stack = <<>>])

\* -------------------------------------------------------------------------
\* Runtime objects and the environment (object.go)
\*
\* Objects that the Go code allocates and compares by pointer (Array,
\* Function, ReturnValue, Error) carry the number of their allocation in id.
\* An *Environment is its index in heap; outer = 0 is the nil pointer.
\* -------------------------------------------------------------------------
ARRAY_OBJ == "ARRAY"
BOOL_OBJ == "BOOLEAN"
BUILTIN_OBJ == "BUILTIN"
ERR_OBJ == "ERROR_OBJ"
FLOAT_OBJ == "FLOAT"
FUNCTION_OBJ == "FUNCTION"
INTEGER_OBJ == "INTEGER"
NULL_OBJ == "NULL"
RETURN_OBJ == "RETURN_VALUE"
STRING_OBJ == "STRING_OBJ"

Integer(value) == [Type |-> INTEGER_OBJ, value |-> value]

Float(value) == [Type |-> FLOAT_OBJ, value |-> value]

StringValue(value) == [Type |-> STRING_OBJ, value |-> value]

Builtin(fn) == [Type |-> BUILTIN_OBJ, fn |-> fn]

Array(elements, id) == [Type |-> ARRAY_OBJ, elements |-> elements, id |-> id]

Function(parameters, env, body, id) ==
  [Type |-> FUNCTION_OBJ, parameters |-> parameters, env |-> env, body |-> body, id |-> id]

ReturnValue(value, id) == [Type |-> RETURN_OBJ, value |-> value, id |-> id]

Error(message, id) == [Type |-> ERR_OBJ, message |-> message, id |-> id]

FalseObject == [Type |-> BOOL_OBJ, value |-> FALSE]

TrueObject == [Type |-> BOOL_OBJ, value |-> TRUE]

NullObject == [Type |-> NULL_OBJ]

\* The interpreter's state while a program is evaluated: the environments
\* allocated so far, the lines written to standard output, the allocation
\* counter, the depth of nested user function calls, panic (the message of
\* the Go run-time panic that aborted the evaluation, "" for none) and val
\* (the object the last evaluation step returned).  trace is a history of
\* what the evaluation did, kept for the properties only.
NoPanic == ""

Ret(s, val) == [s EXCEPT !.val = val]

\* A panic ends every call in progress.
Panic(s, message) == [s EXCEPT !.panic = message, !.val = NilObject, !.stack = <<>>]

Panicked(s) == s.panic # NoPanic

\* What the trace keeps of an object: its type, identity and, for the small
\* objects, its value.
RECURSIVE Brief(_)
Brief(obj) ==
  CASE obj.Type = ARRAY_OBJ ->
         [Type |-> ARRAY_OBJ, id |-> obj.id,
          elems |-> [i \in DOMAIN obj.elements |-> obj.elements[i].Type],
          elements |-> [i \in DOMAIN obj.elements |-> Brief(obj.elements[i])]]
    [] obj.Type = FUNCTION_OBJ -> [Type |-> FUNCTION_OBJ, id |-> obj.id, env |-> obj.env]
    [] obj.Type = RETURN_OBJ -> [Type |-> RETURN_OBJ, id |-> obj.id, value |-> Brief(obj.value)]
    [] OTHER -> obj

Log(s, event) == [s EXCEPT !.trace = Append(s.trace, event)]

newEnvironment(s) ==
  [s EXCEPT !.heap = Append(s.heap, [store |-> <<>>, outer |-> 0]),
            !.val = Len(s.heap) + 1]

newEnclosedEnvironment(s, outer) ==
  [s EXCEPT !.heap = Append(s.heap, [store |-> <<>>, outer |-> outer]),
            !.val = Len(s.heap) + 1]

RECURSIVE Environment_get(_, _, _)
Environment_get(heap, e, name) ==
  IF name \in DOMAIN heap[e].store
  THEN [obj |-> heap[e].store[name], ok |-> TRUE]
  ELSE IF heap[e].outer # 0
       THEN Environment_get(heap, heap[e].outer, name)
       ELSE [obj |-> NilObject, ok |-> FALSE]

\* A store that forgets what it held when a name is bound
StorePut_fresh(store, name, val) == [n \in {name} |-> val]

\* e.store[name] = val
StorePut(store, name, val) ==
  [n \in (DOMAIN store) \cup {name} |-> IF n = name THEN val ELSE store[n]]

\* The scope of the chain from e that binds name, e itself when none does
RECURSIVE BindingScope(_, _, _)
BindingScope(heap, e, name) ==
  IF name \in DOMAIN heap[e].store \/ heap[e].outer = 0 THEN e
  ELSE BindingScope(heap, heap[e].outer, name)

\* A set that assigns to the enclosing scope's binding when there is one
Environment_set_outer(s, e, name, val) ==
  LET scope == IF BindingScope(s.heap, e, name) # e
                  /\ name \in DOMAIN s.heap[BindingScope(s.heap, e, name)].store
               THEN BindingScope(s.heap, e, name) ELSE e
  IN Log([s EXCEPT !.heap[scope].store = StorePut(s.heap[scope].store, name, val),
                   !.val = val],
         [ev |-> "set", env |-> e, name |-> name, val |-> Brief(val)])

Environment_set(s, e, name, val) ==
  Log([s EXCEPT !.heap[e].store = StorePut(s.heap[e].store, name, val), !.val = val],
      [ev |-> "set", env |-> e, name |-> name, val |-> Brief(val)])

newError(s, message) ==
  [s EXCEPT !.nextId = s.nextId + 1, !.val = Error(message, s.nextId)]

\* An isError that tests for the wrong type
isError_wrongTag(object) == object # NilObject /\ object.Type = RETURN_OBJ

isError(object) == object # NilObject /\ object.Type = ERR_OBJ

nativeBoolToBoolObj(input) == IF input THEN TrueObject ELSE FalseObject

unwrapReturnValue(object) ==
  IF object.Type = RETURN_OBJ THEN object.value ELSE object

\* An isTruthy for which the Integer 0 is false as well
isTruthy_zeroFalse(object) ==
  CASE object = NullObject -> FALSE
    [] object = TrueObject -> TRUE
    [] object = FalseObject -> FALSE
    [] object = Integer(0) -> FALSE
    [] OTHER -> TRUE

isTruthy(object) ==
  CASE object = NullObject -> FALSE
    [] object = TrueObject -> TRUE
    [] object = FalseObject -> FALSE
    [] OTHER -> TRUE

\* -------------------------------------------------------------------------
\* Display forms (inspect, object.go).  Calling inspect on nil panics:
\* CanInspect tells whether inspect returns.
\* -------------------------------------------------------------------------
Min(a, b) == IF a < b THEN a ELSE b

\* fmt's %v of a float64 that has a finite decimal expansion
RECURSIVE FracDigits(_, _)
FracDigits(rem, den) ==
  IF rem = 0 THEN ""
  ELSE ToString((rem * 10) \div den) \o FracDigits((rem * 10) % den, den)

InspectFloat(f) ==
  IF f.den = 0 THEN (IF f.num > 0 THEN "+Inf" ELSE IF f.num < 0 THEN "-Inf" ELSE "NaN")
  ELSE LET a == Abs(f.num)
           whole == ToString(a \div f.den)
           frac == FracDigits(a % f.den, f.den)
       IN (IF f.num < 0 THEN "-" ELSE "") \o whole \o (IF frac = "" THEN "" ELSE "." \o frac)

RECURSIVE JoinStrings(_, _)
JoinStrings(strs, sep) ==
  IF Len(strs) = 0 THEN ""
  ELSE IF Len(strs) = 1 THEN strs[1]
  ELSE strs[1] \o sep \o JoinStrings(Tail(strs), sep)

\* Array.inspect looks at elements 0..5 only: it returns inside the loop
\* when idx = 5
ArrayShown(elements) == SubSeq(elements, 1, Min(Len(elements), 6))

RECURSIVE CanInspect(_)
CanInspect(obj) ==
  CASE obj = NilObject -> FALSE
    [] obj.Type = ARRAY_OBJ ->
         \A i \in 1..Len(ArrayShown(obj.elements)) : CanInspect(obj.elements[i])
    [] obj.Type = RETURN_OBJ -> CanInspect(obj.value)
    [] OTHER -> TRUE

RECURSIVE inspect(_)
inspect(obj) ==
  CASE obj.Type = ARRAY_OBJ ->
         LET shown == ArrayShown(obj.elements)
             strs == [i \in 1..Len(shown) |-> inspect(shown[i])]
         IN IF Len(obj.elements) >= 6
            THEN "[" \o JoinStrings(strs, ", ") \o ", ..." \o "]"
            ELSE "[" \o JoinStrings(strs, ", ") \o "]"
    [] obj.Type = BOOL_OBJ -> IF obj.value THEN "true" ELSE "false"
    [] obj.Type = BUILTIN_OBJ -> "builtin function"
    [] obj.Type = ERR_OBJ -> "Error: " \o obj.message
    [] obj.Type = FLOAT_OBJ -> InspectFloat(obj.value)
    [] obj.Type = FUNCTION_OBJ ->
         "fn(" \o JoinStrings([i \in 1..Len(obj.parameters) |-> obj.parameters[i].value], ", ")
               \o ")"
    [] obj.Type = INTEGER_OBJ -> ToString(obj.value)
    [] obj.Type = NULL_OBJ -> "null"
    [] obj.Type = RETURN_OBJ -> inspect(obj.value)
    [] obj.Type = STRING_OBJ -> obj.value

\* -------------------------------------------------------------------------
\* The text of a node (the toString methods of the AST).  It is taken of
\* the nodes of a program parsed without errors, which has no nil in it but
\* the alternative of an if without else.
\* -------------------------------------------------------------------------
RECURSIVE Concat(_)
Concat(strs) == IF Len(strs) = 0 THEN "" ELSE strs[1] \o Concat(Tail(strs))

RECURSIVE toString(_)
toString(node) ==
  CASE node.node = "Program" ->
         Concat([i \in DOMAIN node.statements |-> toString(node.statements[i]) \o " "])
    [] node.node = "BlockStatement" ->
         Concat([i \in DOMAIN node.statements |-> toString(node.statements[i])])
    [] node.node = "ExpressionStatement" ->
         IF node.expression # NilNode THEN toString(node.expression) ELSE ""
    [] node.node = "LetStatement" ->
         IF node.value # NilNode
         THEN node.token.literal \o " " \o toString(node.name) \o " = " \o toString(node.value)
         ELSE node.token.literal \o " " \o toString(node.name) \o " = null"
    [] node.node = "ReturnStatement" ->
         IF node.value # NilNode THEN "return " \o toString(node.value) ELSE "return null"
    [] node.node = "ArrayLiteral" ->
         "[" \o JoinStrings([i \in DOMAIN node.elements |-> toString(node.elements[i])], ", ")
             \o "]"
    [] node.node = "BooleanLiteral" -> node.token.literal
    [] node.node = "CallExpression" ->
         toString(node.function) \o "("
           \o JoinStrings([i \in DOMAIN node.arguments |-> toString(node.arguments[i])], ", ")
           \o ")"
    [] node.node = "FloatLiteral" -> InspectFloat(node.value)
    [] node.node = "FunctionLiteral" ->
         node.token.literal \o "("
           \o JoinStrings([i \in DOMAIN node.parameters |-> toString(node.parameters[i])], ", ")
           \o ")" \o toString(node.body)
    [] node.node = "Identifier" -> node.value
    [] node.node = "IndexExpression" ->
         "(" \o toString(node.left) \o "[" \o toString(node.index) \o "])"
    [] node.node = "IfExpression" ->
         IF node.alternative = NilNode
         THEN "if " \o toString(node.condition) \o " " \o toString(node.consequence)
         ELSE "if " \o toString(node.condition) \o " " \o toString(node.consequence)
                \o " else " \o toString(node.alternative)
    [] node.node = "InfixExpression" ->
         IF node.left = NilNode \/ node.right = NilNode THEN "{ INVALID INFIX EXPR }"
         ELSE "(" \o toString(node.left) \o " " \o node.operator \o " "
                \o toString(node.right) \o ")"
    [] node.node = "IntegerLiteral" -> ToString(node.value)
    [] node.node = "StringLiteral" -> node.token.literal
    [] node.node = "PrefixExpression" ->
         IF node.right # NilNode THEN "(" \o node.operator \o " " \o toString(node.right) \o ")"
         ELSE "(" \o node.operator \o ")"

\* -------------------------------------------------------------------------
\* Built-ins (golangBuiltins.go).  A built-in takes the evaluation state and
\* the argument list and returns the state with its result in val.
\* -------------------------------------------------------------------------
BuiltinNames == {"len", "first", "last", "rest", "push", "range_array", "puts"}

\* Calling Type() on a nil interface value panics
NilDeref == "invalid memory address or nil pointer dereference"

builtin_len(s, args) ==
  IF Len(args) # 1
  THEN newError(s, "wrong number of args passed to len(). Got " \o ToString(Len(args))
                     \o ", want 1")
  ELSE CASE args[1] = NilObject -> Panic(s, NilDeref)
         [] args[1].Type = ARRAY_OBJ -> Ret(s, Integer(Len(args[1].elements)))
         [] args[1].Type = STRING_OBJ -> Ret(s, Integer(Len(args[1].value)))
         [] OTHER -> newError(s, "argument to 'len()' not supported, got " \o args[1].Type)

builtin_first(s, args) ==
  IF Len(args) # 1
  THEN newError(s, "first: wrong number of arguments. Got " \o ToString(Len(args))
                     \o ", want 1")
  ELSE CASE args[1] = NilObject -> Panic(s, NilDeref)
         [] args[1].Type # ARRAY_OBJ ->
              newError(s, "first: arguments to first must be an Array, got "
                            \o args[1].Type \o ".")
         [] OTHER -> IF Len(args[1].elements) > 0
                     THEN Ret(s, args[1].elements[1])
                     ELSE Ret(s, NullObject)

builtin_last(s, args) ==
  IF Len(args) # 1
  THEN newError(s, "last: wrong number of arguments. Got " \o ToString(Len(args))
                     \o ", want 1")
  ELSE CASE args[1] = NilObject -> Panic(s, NilDeref)
         [] args[1].Type # ARRAY_OBJ ->
              newError(s, "last: arguments to last must be an Array, got "
                            \o args[1].Type \o ".")
         [] OTHER -> IF Len(args[1].elements) > 0
                     THEN Ret(s, args[1].elements[Len(args[1].elements)])
                     ELSE Ret(s, NullObject)

builtin_rest(s, args) ==
  IF Len(args) # 1
  THEN newError(s, "rest: wrong number of arguments. Got " \o ToString(Len(args))
                     \o ", want 1")
  ELSE CASE args[1] = NilObject -> Panic(s, NilDeref)
         [] args[1].Type # ARRAY_OBJ ->
              newError(s, "rest: arguments to rest must be an Array, got "
                            \o args[1].Type \o ".")
         [] OTHER -> IF Len(args[1].elements) > 0
                     THEN [s EXCEPT !.nextId = s.nextId + 1,
                                    !.val = Array(Tail(args[1].elements), s.nextId)]
                     ELSE Ret(s, NullObject)

\* A push that appends to the array it is given
builtin_push_inPlace(s, args) ==
  IF Len(args) # 2
  THEN newError(s, "push: wrong number of arguments. Got " \o ToString(Len(args))
                     \o ", want 2")
  ELSE CASE args[1] = NilObject -> Panic(s, NilDeref)
         [] args[1].Type # ARRAY_OBJ ->
              newError(s, "push: first argument to push must be an Array, got "
                            \o args[1].Type \o ".")
         [] OTHER -> Ret(s, Array(Append(args[1].elements, args[2]), args[1].id))

builtin_push(s, args) ==
  IF Len(args) # 2
  THEN newError(s, "push: wrong number of arguments. Got " \o ToString(Len(args))
                     \o ", want 2")
  ELSE CASE args[1] = NilObject -> Panic(s, NilDeref)
         [] args[1].Type # ARRAY_OBJ ->
              newError(s, "push: first argument to push must be an Array, got "
                            \o args[1].Type \o ".")
         [] OTHER -> [s EXCEPT !.nextId = s.nextId + 1,
                               !.val = Array(Append(args[1].elements, args[2]), s.nextId)]

\* The number of Integers the process has memory for
MaxElements == 8

OutOfMemory == "runtime: out of memory"

\* the loop `for i := start; i <= stop; i++` of range_array; i++ wraps
\* around at the largest integer.  The loop is cut short when arr has more
\* elements than the process has memory for.
RECURSIVE RangeLoop(_, _, _)
RangeLoop(i, stop, arr) ==
  IF i <= stop /\ Len(arr) <= MaxElements
  THEN RangeLoop(wrap(i + 1), stop, Append(arr, Integer(i)))
  ELSE arr

builtin_range_array(s, args) ==
  IF Len(args) # 2
  THEN newError(s, "range_array: wrong number of arguments. Got " \o ToString(Len(args))
                     \o ", want 2")
  ELSE CASE args[1] = NilObject \/ args[2] = NilObject -> Panic(s, NilDeref)
         [] args[1].Type # args[2].Type \/ args[1].Type # INTEGER_OBJ ->
              newError(s, "range_array: invalid types provided: (" \o args[1].Type \o ", "
                            \o args[2].Type
                            \o "). This function only accepts INTEGERS.")
         [] OTHER ->
              Let(RangeLoop(args[1].value, args[2].value, <<>>), LAMBDA arr :
                IF Len(arr) > MaxElements THEN Panic(s, OutOfMemory)
                ELSE [s EXCEPT !.nextId = s.nextId + 1, !.val = Array(arr, s.nextId)])

RECURSIVE PutsLoop(_, _, _)
PutsLoop(s, args, i) ==
  IF i > Len(args) THEN Ret(s, NullObject)
  ELSE IF ~CanInspect(args[i]) THEN Panic(s, NilDeref)
  ELSE PutsLoop([s EXCEPT !.out = Append(s.out, inspect(args[i]))], args, i + 1)

builtin_puts(s, args) == PutsLoop(s, args, 1)

\* fn.fn(args...) for the built-in named fn
CallBuiltin(fn, s, args) ==
  CASE fn = "len" -> builtin_len(s, args)
    [] fn = "first" -> builtin_first(s, args)
    [] fn = "last" -> builtin_last(s, args)
    [] fn = "rest" -> builtin_rest(s, args)
    [] fn = "push" -> builtin_push(s, args)
    [] fn = "range_array" -> builtin_range_array(s, args)
    [] fn = "puts" -> builtin_puts(s, args)

\* -------------------------------------------------------------------------
\* Evaluator.  An evaluation function takes the evaluation state s and
\* returns the state after it, with the object it returns in val.
\* -------------------------------------------------------------------------

\* Depth of nested user function calls at which the Go stack is taken to be
\* exhausted.
MaxCallDepth == 12

StackOverflow == "stack overflow"

\* Go's integer division truncates toward zero
Quot(a, b) ==
  LET q == Abs(a) \div Abs(b)
  IN IF (a < 0) = (b < 0) THEN q ELSE 0 - q

\* %v of the operand of evalOtherInfixOperators: an int64 or a float64
OperandText(v, isFloat) == IF isFloat THEN InspectFloat(v) ELSE ToString(v)

\* left < right for two operands of evalOtherInfixOperators.  Of the
\* float64 that are no fractions, num/0 is +Inf, -Inf or, for num = 0, NaN,
\* which is neither below nor above anything.
Less(left, right, isFloat) ==
  IF ~isFloat THEN left < right
  ELSE IF left.den # 0 /\ right.den # 0
  THEN left.num * right.den < right.num * left.den
  ELSE /\ left # [num |-> 0, den |-> 0]
       /\ right # [num |-> 0, den |-> 0]
       /\ (IF left.den = 0 THEN left.num ELSE 0) < (IF right.den = 0 THEN right.num ELSE 0)

\* left == right for two operands of evalOtherInfixOperators: NaN equals
\* nothing
Equal(left, right, isFloat) ==
  left = right /\ (isFloat => left # [num |-> 0, den |-> 0])

evalOtherInfixOperators(s, token, left, right, operator, isFloat) ==
  CASE operator = "<" -> Ret(s, nativeBoolToBoolObj(Less(left, right, isFloat)))
    [] operator = "<=" ->
         Ret(s, nativeBoolToBoolObj(Less(left, right, isFloat) \/ Equal(left, right, isFloat)))
    [] operator = ">" -> Ret(s, nativeBoolToBoolObj(Less(right, left, isFloat)))
    [] operator = ">=" ->
         Ret(s, nativeBoolToBoolObj(Less(right, left, isFloat) \/ Equal(left, right, isFloat)))
    [] operator = "!=" -> Ret(s, nativeBoolToBoolObj(~Equal(left, right, isFloat)))
    [] operator = "==" -> Ret(s, nativeBoolToBoolObj(Equal(left, right, isFloat)))
    [] OTHER ->
         newError(s, "invalid operator found when evaluating infix expression {"
                       \o OperandText(left, isFloat) \o " " \o operator \o " "
                       \o OperandText(right, isFloat) \o "}. On line " \o ToString(token.line)
                       \o ", column " \o ToString(token.column) \o ".")

evalIntegerInfixExpr(s, token, left, right, operator) ==
  LET leftVal == left.value
      rightVal == right.value
  IN CASE operator = "+" -> Ret(s, Integer(wrap(leftVal + rightVal)))
       [] operator = "-" -> Ret(s, Integer(wrap(leftVal - rightVal)))
       [] operator = "/" ->
            IF rightVal = 0 THEN Panic(s, "integer divide by zero")
            ELSE Ret(s, Integer(wrap(Quot(leftVal, rightVal))))
       [] operator = "*" -> Ret(s, Integer(wrap(leftVal * rightVal)))
       [] OTHER -> evalOtherInfixOperators(s, token, leftVal, rightVal, operator, FALSE)

evalFloatInfixExpr(s, token, left, right, operator) ==
  LET leftVal == left.value
      rightVal == right.value
  IN CASE operator = "+" ->
            Ret(s, Float(Frac(leftVal.num * rightVal.den + rightVal.num * leftVal.den,
                              leftVal.den * rightVal.den)))
       [] operator = "-" ->
            Ret(s, Float(Frac(leftVal.num * rightVal.den - rightVal.num * leftVal.den,
                              leftVal.den * rightVal.den)))
       [] operator = "/" ->
            IF rightVal.num = 0
            THEN Ret(s, Float([num |-> IF leftVal.num > 0 THEN 1
                                       ELSE IF leftVal.num < 0 THEN 0 - 1 ELSE 0,
                               den |-> 0]))
            ELSE Ret(s, Float(Frac(leftVal.num * rightVal.den, leftVal.den * rightVal.num)))
       [] operator = "*" ->
            Ret(s, Float(Frac(leftVal.num * rightVal.num, leftVal.den * rightVal.den)))
       [] OTHER -> evalOtherInfixOperators(s, token, leftVal, rightVal, operator, TRUE)

evalStringInfixExpression(s, token, operator, left, right) ==
  IF operator # "+"
  THEN newError(s, "invalid operator found when evaluating infix expression {"
                     \o left.Type \o " " \o operator \o " " \o right.Type
                     \o "}. On line " \o ToString(token.line) \o ", column "
                     \o ToString(token.column) \o ".")
  ELSE Ret(s, StringValue(left.value \o right.value))

\* An evalInfixExpr that tests the types of the operands before it looks at
\* the operator
evalInfixExpr_typesFirst(s0, token, left, right, operator) ==
  LET s == Log(s0, [ev |-> "operator", operator |-> operator,
                    left |-> Brief(left), right |-> Brief(right)])
  IN CASE left = NilObject \/ right = NilObject -> Panic(s, NilDeref)
       [] left.Type # right.Type ->
            newError(s, "mismatched types found when evaluating infix expression {"
                          \o left.Type \o ", " \o right.Type \o "}. On line: "
                          \o ToString(token.line) \o ", column: " \o ToString(token.column))
       [] left.Type = INTEGER_OBJ -> evalIntegerInfixExpr(s, token, left, right, operator)
       [] left.Type = FLOAT_OBJ -> evalFloatInfixExpr(s, token, left, right, operator)
       [] left.Type = STRING_OBJ ->
            evalStringInfixExpression(s, token, operator, left, right)
       [] operator = "==" -> Ret(s, nativeBoolToBoolObj(left = right))
       [] operator = "!=" -> Ret(s, nativeBoolToBoolObj(left # right))
       [] OTHER ->
            newError(s, "invalid operator found when evaluating infix expression {"
                          \o left.Type \o " " \o operator \o " " \o right.Type
                          \o "}. On line " \o ToString(token.line) \o ", column "
                          \o ToString(token.column) \o ".")

\* The cases of the switch are tried in order; a case calls Type() on right
\* only when its test of left succeeded.
evalInfixExpr(s0, token, left, right, operator) ==
  LET s == Log(s0, [ev |-> "operator", operator |-> operator,
                    left |-> Brief(left), right |-> Brief(right)])
  IN CASE left = NilObject -> Panic(s, NilDeref)
       [] left.Type \in {INTEGER_OBJ, FLOAT_OBJ, STRING_OBJ} /\ right = NilObject ->
            Panic(s, NilDeref)
       [] left.Type = INTEGER_OBJ /\ right.Type = INTEGER_OBJ ->
            evalIntegerInfixExpr(s, token, left, right, operator)
       [] left.Type = FLOAT_OBJ /\ right.Type = FLOAT_OBJ ->
            evalFloatInfixExpr(s, token, left, right, operator)
       [] left.Type = STRING_OBJ /\ right.Type = STRING_OBJ ->
            evalStringInfixExpression(s, token, operator, left, right)
       [] operator = "==" -> Ret(s, nativeBoolToBoolObj(left = right))
       [] operator = "!=" -> Ret(s, nativeBoolToBoolObj(left # right))
       [] right = NilObject -> Panic(s, NilDeref)
       [] left.Type # right.Type ->
            newError(s, "mismatched types found when evaluating infix expression {"
                          \o left.Type \o ", " \o right.Type \o "}. On line: "
                          \o ToString(token.line) \o ", column: " \o ToString(token.column))
       [] OTHER ->
            newError(s, "invalid operator found when evaluating infix expression {"
                          \o left.Type \o " " \o operator \o " " \o right.Type
                          \o "}. On line " \o ToString(token.line) \o ", column "
                          \o ToString(token.column) \o ".")

evalBangOperatorExpr(right) ==
  CASE right = TrueObject -> FalseObject
    [] right = FalseObject -> TrueObject
    [] right = NullObject -> TrueObject
    [] OTHER -> FalseObject

evalMinusPrefixExpr(s, token, right) ==
  CASE right = NilObject -> Panic(s, NilDeref)
    [] right.Type = INTEGER_OBJ -> Ret(s, Integer(wrap(0 - right.value)))
    [] right.Type = FLOAT_OBJ ->
         Ret(s, Float([num |-> 0 - right.value.num, den |-> right.value.den]))
    [] OTHER -> newError(s, "invalid operator {" \o token.literal \o "}. On line: "
                              \o ToString(token.line) \o ", column: "
                              \o ToString(token.column) \o ".")

evalPrefixExpression(s0, token, operator, right) ==
  LET s == Log(s0, [ev |-> "operator", operator |-> operator, right |-> Brief(right)])
  IN CASE operator = "!" -> Ret(s, evalBangOperatorExpr(right))
       [] operator = "-" -> evalMinusPrefixExpr(s, token, right)
       [] OTHER -> newError(s, "invalid operator in prefix position {" \o operator
                                 \o "}. On line: " \o ToString(token.line) \o ", column: "
                                 \o ToString(token.column))

\* An evalArrayIndexExpression whose upper limit is one too low
evalArrayIndexExpression_short(array, index) ==
  LET idx == index.value
      max == Len(array.elements) - 1
  IN IF idx < 0 \/ idx >= max THEN NullObject ELSE array.elements[idx + 1]

evalArrayIndexExpression(array, index) ==
  LET idx == index.value
      max == Len(array.elements) - 1
  IN IF idx < 0 \/ idx > max THEN NullObject ELSE array.elements[idx + 1]

evalIndexExpression(s, token, left, index) ==
  CASE left = NilObject -> Panic(s, NilDeref)
    [] left.Type = ARRAY_OBJ /\ index = NilObject -> Panic(s, NilDeref)
    [] left.Type = ARRAY_OBJ /\ index.Type = INTEGER_OBJ ->
         Ret(s, evalArrayIndexExpression(left, index))
    [] OTHER -> newError(s, "index operator not supported: " \o left.Type \o ". On line "
                              \o ToString(token.line) \o ", column: "
                              \o ToString(token.column) \o ".")

\* An evalIdentifier that looks into the table of built-ins first
evalIdentifier_builtinsFirst(s, token, node, env) ==
  LET r == Environment_get(s.heap, env, node.value)
  IN IF node.value \in BuiltinNames THEN Ret(s, Builtin(node.value))
     ELSE IF r.ok THEN Ret(s, r.obj)
     ELSE newError(s, "identifier not found {" \o node.value \o "}. Found on line: "
                        \o ToString(token.line) \o ", column: " \o ToString(token.column)
                        \o ".")

evalIdentifier(s, token, node, env) ==
  LET r == Environment_get(s.heap, env, node.value)
  IN IF r.ok THEN Ret(s, r.obj)
     ELSE IF node.value \in BuiltinNames THEN Ret(s, Builtin(node.value))
     ELSE newError(s, "identifier not found {" \o node.value \o "}. Found on line: "
                        \o ToString(token.line) \o ", column: " \o ToString(token.column)
                        \o ".")

\* extendFunctionEnv: val is the new environment; args[idx] panics when the
\* call has fewer arguments than the function has parameters
RECURSIVE extendFunctionEnvLoop(_, _, _, _, _)
extendFunctionEnvLoop(s, env, fn, args, idx) ==
  IF idx > Len(fn.parameters) THEN Ret(s, env)
  ELSE IF idx > Len(args) THEN Panic(s, "index out of range")
  ELSE extendFunctionEnvLoop(Environment_set(s, env, fn.parameters[idx].value, args[idx]),
                             env, fn, args, idx + 1)

\* An extendFunctionEnv that binds the parameters in the function's own
\* environment instead of a new one
extendFunctionEnv_shared(s, fn, args) ==
  extendFunctionEnvLoop(s, fn.env, fn, args, 1)

extendFunctionEnv(s, fn, args) ==
  LET s1 == newEnclosedEnvironment(s, fn.env)
  IN extendFunctionEnvLoop(s1, s1.val, fn, args, 1)

\* eval(node, env) as a call
evalCall(node, env) == Invoke("eval", [node |-> node, env |-> env])

\* Where a node stands in the source.  A Program has no token.
NodeAt(node) ==
  IF node.node \in {"Program", "nil"} THEN [line |-> 0, column |-> 0]
  ELSE [line |-> node.token.line, column |-> node.token.column]

\* eval returns val; the trace records the result
evalReturn(s, f, val) ==
  LET at == NodeAt(f.args.node)
  IN Return(Log(s, [ev |-> "exit", node |-> f.args.node.node, line |-> at.line,
                    column |-> at.column, env |-> f.args.env, val |-> Brief(val)]),
            val)

\* return callee(...) in eval
evalTail(s, f, callee) ==
  IF f.pc = 0 THEN Call(s, f, 1, <<>>, callee) ELSE evalReturn(s, f, s.val)

\* return r, the result of a function that calls no function on the stack
evalLeaf(r, f) == IF Panicked(r) THEN r ELSE evalReturn(r, f, r.val)

evalProgram(s, f) ==
  LET stmts == f.args.program.statements
      i == IF f.pc = 0 THEN 1 ELSE f.v.i + 1
      result == IF f.pc = 0 THEN NilObject ELSE s.val
  IN IF f.pc = 1 /\ result.Type \in {RETURN_OBJ, ERR_OBJ} THEN Return(s, result)
     ELSE IF i > Len(stmts) THEN Return(s, result)
     ELSE Call(s, f, 1, [i |-> i], evalCall(stmts[i], f.args.env))

\* An evalBlockStatement that stops at a ReturnValue only
evalBlockStatement_skipError(s, f) ==
  LET stmts == f.args.block.statements
      i == IF f.pc = 0 THEN 1 ELSE f.v.i + 1
      result == IF f.pc = 0 THEN NilObject ELSE s.val
  IN IF f.pc = 1 /\ result # NilObject /\ result.Type = RETURN_OBJ
     THEN Return(s, result)
     ELSE IF i > Len(stmts) THEN Return(s, result)
     ELSE Call(s, f, 1, [i |-> i], evalCall(stmts[i], f.args.env))

evalBlockStatement(s, f) ==
  LET stmts == f.args.block.statements
      i == IF f.pc = 0 THEN 1 ELSE f.v.i + 1
      result == IF f.pc = 0 THEN NilObject ELSE s.val
  IN IF f.pc = 1 /\ result # NilObject /\ result.Type \in {RETURN_OBJ, ERR_OBJ}
     THEN Return(s, result)
     ELSE IF i > Len(stmts) THEN Return(s, result)
     ELSE Call(s, f, 1, [i |-> i], evalCall(stmts[i], f.args.env))

\* An evalExpressions that goes on after an Error
evalExpressions_goOn(s, f) ==
  LET exprs == f.args.exprs
      i == IF f.pc = 0 THEN 1 ELSE f.v.i + 1
      result == IF f.pc = 0 THEN <<>> ELSE Append(f.v.result, s.val)
  IN IF i > Len(exprs) THEN Return(s, result)
     ELSE Call(s, f, 1, [i |-> i, result |-> result], evalCall(exprs[i], f.args.env))

evalExpressions(s, f) ==
  LET exprs == f.args.exprs
      i == IF f.pc = 0 THEN 1 ELSE f.v.i + 1
      result == IF f.pc = 0 THEN <<>> ELSE Append(f.v.result, s.val)
  IN IF f.pc = 1 /\ isError(s.val) THEN Return(s, <<s.val>>)
     ELSE IF i > Len(exprs) THEN Return(s, result)
     ELSE Call(s, f, 1, [i |-> i, result |-> result], evalCall(exprs[i], f.args.env))

\* The trace records which block, if any, the condition selects
evalIfExpression(s, f) ==
  LET ifExpr == f.args.ifExpr
      env == f.args.env
      Branch(taken, block) ==
        Log(s, [ev |-> "branch", condition |-> Brief(s.val), taken |-> taken,
                line |-> NodeAt(block).line, column |-> NodeAt(block).column])
  IN CASE f.pc = 0 -> Call(s, f, 1, <<>>, evalCall(ifExpr.condition, env))
       [] f.pc = 1 ->
            IF isError(s.val) THEN Return(s, s.val)
            ELSE IF isTruthy(s.val)
            THEN Call(Branch("consequence", ifExpr.consequence), f, 2, <<>>,
                      evalCall(ifExpr.consequence, env))
            ELSE IF ifExpr.alternative # NilNode
            THEN Call(Branch("alternative", ifExpr.alternative), f, 2, <<>>,
                      evalCall(ifExpr.alternative, env))
            ELSE Return(Branch("none", NilNode), NullObject)
       [] f.pc = 2 -> Return(s, s.val)

\* The trace records the application of a user function to its arguments,
\* its call with the environment made for it and what the call returns, and
\* for a built-in its arguments and what it returns.
applyFunction(s0, f) ==
  LET fn == f.args.fn
      token == f.args.token
      args == [i \in DOMAIN f.args.args |-> Brief(f.args.args[i])]
      s == IF f.pc = 0
           THEN Log(s0, [ev |-> "apply", fn |-> Brief(fn), args |-> args,
                         params |-> IF fn.Type = FUNCTION_OBJ
                                    THEN [i \in DOMAIN fn.parameters |->
                                            fn.parameters[i].value]
                                    ELSE <<>>])
           ELSE s0
      e == extendFunctionEnv(s, fn, f.args.args)
  IN CASE f.pc = 1 ->
            Return(Log([s EXCEPT !.depth = s.depth - 1],
                       [ev |-> "return", fn |-> Brief(fn),
                        val |-> Brief(unwrapReturnValue(s.val))]),
                   unwrapReturnValue(s.val))
       [] fn = NilObject -> Panic(s, NilDeref)
       [] fn.Type = FUNCTION_OBJ ->
            IF s.depth >= MaxCallDepth THEN Panic(s, StackOverflow)
            ELSE IF Panicked(e) THEN e
            ELSE Call(Log([e EXCEPT !.depth = s.depth + 1],
                          [ev |-> "call", fn |-> Brief(fn), env |-> e.val]),
                      f, 1, <<>>, evalCall(fn.body, e.val))
       [] fn.Type = BUILTIN_OBJ ->
            LET r == CallBuiltin(fn.fn, s, f.args.args)
            IN IF Panicked(r) THEN r
               ELSE Return(Log(r, [ev |-> "builtin", fn |-> fn.fn, args |-> args,
                                   val |-> Brief(r.val)]),
                           r.val)
       [] OTHER ->
            LET r == newError(s, "attempted to eval something that wasn't a function {"
                                   \o fn.Type \o "}. On line: " \o ToString(token.line)
                                   \o ", column: " \o ToString(token.column) \o ".")
            IN Return(r, r.val)

\* A function literal that keeps a copy of env as it is when the function
\* is created
evalFunctionLiteral_copy(s, node, env) ==
  [s EXCEPT !.heap = Append(s.heap, s.heap[env]),
            !.nextId = s.nextId + 1,
            !.val = Function(node.parameters, Len(s.heap) + 1, node.body, s.nextId)]

\* case *FunctionLiteral of eval: the function refers to env, the
\* environment it is created in
evalFunctionLiteral(s, node, env) ==
  [s EXCEPT !.nextId = s.nextId + 1,
            !.val = Function(node.parameters, env, node.body, s.nextId)]

\* eval: the switch on the type of node.  The trace records the call.
eval(s0, f) ==
  LET node == f.args.node
      env == f.args.env
      kind == node.node
      at == NodeAt(node)
      s == IF f.pc = 0
           THEN Log(s0, [ev |-> "enter", node |-> kind, line |-> at.line,
                         column |-> at.column, env |-> env,
                         name |-> IF kind = "Identifier" THEN node.value ELSE ""])
           ELSE s0
      val == s.val
  IN CASE kind = "Program" ->
            evalTail(s, f, Invoke("evalProgram", [program |-> node, env |-> env]))
       [] kind = "BlockStatement" ->
            evalTail(s, f, Invoke("evalBlockStatement", [block |-> node, env |-> env]))
       [] kind = "ExpressionStatement" -> evalTail(s, f, evalCall(node.expression, env))
       [] kind = "LetStatement" ->
            (CASE f.pc = 0 -> Call(s, f, 1, <<>>, evalCall(node.value, env))
              [] isError(val) -> evalReturn(s, f, val)
              [] OTHER -> evalReturn(Environment_set(s, env, node.name.value, val), f, val))
       [] kind = "ReturnStatement" ->
            (CASE f.pc = 0 -> Call(s, f, 1, <<>>, evalCall(node.value, env))
              [] isError(val) -> evalReturn(s, f, val)
              [] OTHER -> evalReturn([s EXCEPT !.nextId = s.nextId + 1], f,
                                     ReturnValue(val, s.nextId)))
       [] kind = "ArrayLiteral" ->
            (CASE f.pc = 0 ->
                   Call(s, f, 1, <<>>,
                        Invoke("evalExpressions", [exprs |-> node.elements, env |-> env]))
              [] Len(val) = 1 /\ isError(val[1]) -> evalReturn(s, f, val[1])
              [] OTHER -> evalReturn([s EXCEPT !.nextId = s.nextId + 1], f,
                                     Array(val, s.nextId)))
       [] kind = "BooleanLiteral" -> evalReturn(s, f, nativeBoolToBoolObj(node.value))
       [] kind = "CallExpression" ->
            (CASE f.pc = 0 -> Call(s, f, 1, <<>>, evalCall(node.function, env))
              [] f.pc = 1 /\ isError(val) -> evalReturn(s, f, val)
              [] f.pc = 1 ->
                   Call(s, f, 2, [function |-> val],
                        Invoke("evalExpressions", [exprs |-> node.arguments, env |-> env]))
              [] f.pc = 2 /\ Len(val) = 1 /\ isError(val[1]) -> evalReturn(s, f, val[1])
              [] f.pc = 2 ->
                   Call(s, f, 3, <<>>,
                        Invoke("applyFunction",
                               [token |-> node.token, fn |-> f.v.function, args |-> val]))
              [] f.pc = 3 -> evalReturn(s, f, val))
       [] kind = "FloatLiteral" -> evalReturn(s, f, Float(node.value))
       [] kind = "FunctionLiteral" -> evalLeaf(evalFunctionLiteral(s, node, env), f)
       [] kind = "Identifier" -> evalLeaf(evalIdentifier(s, node.token, node, env), f)
       [] kind = "IfExpression" ->
            evalTail(s, f, Invoke("evalIfExpression", [ifExpr |-> node, env |-> env]))
       [] kind = "IndexExpression" ->
            (CASE f.pc = 0 -> Call(s, f, 1, <<>>, evalCall(node.left, env))
              [] isError(val) -> evalReturn(s, f, val)
              [] f.pc = 1 -> Call(s, f, 2, [left |-> val], evalCall(node.index, env))
              [] f.pc = 2 -> evalLeaf(evalIndexExpression(s, node.token, f.v.left, val), f))
       [] kind = "IntegerLiteral" -> evalReturn(s, f, Integer(node.value))
       [] kind = "InfixExpression" ->
            (CASE f.pc = 0 -> Call(s, f, 1, <<>>, evalCall(node.left, env))
              [] isError(val) -> evalReturn(s, f, val)
              [] f.pc = 1 -> Call(s, f, 2, [left |-> val], evalCall(node.right, env))
              [] f.pc = 2 ->
                   evalLeaf(evalInfixExpr(s, node.token, f.v.left, val, node.operator), f))
       [] kind = "PrefixExpression" ->
            (CASE f.pc = 0 -> Call(s, f, 1, <<>>, evalCall(node.right, env))
              [] isError(val) -> evalReturn(s, f, val)
              [] OTHER -> evalLeaf(evalPrefixExpression(s, node.token, node.operator, val), f))
       [] kind = "StringLiteral" -> evalReturn(s, f, StringValue(node.token.literal))
       [] node = NilNode -> evalReturn(s, f, NullObject)
       [] OTHER -> Panic(s, NilDeref)

\* One step of the evaluator: the function on top of the stack runs up to
\* its next call or to its return.
EvalStep(s) ==
  LET f == s.stack[Len(s.stack)]
  IN CASE f.fn = "eval" -> eval(s, f)
       [] f.fn = "evalExpressions" -> evalExpressions(s, f)
       [] f.fn = "evalBlockStatement" -> evalBlockStatement(s, f)
       [] f.fn = "evalIfExpression" -> evalIfExpression(s, f)
       [] f.fn = "applyFunction" -> applyFunction(s, f)
       [] f.fn = "evalProgram" -> evalProgram(s, f)

\* EvalStep repeated until no call is left, 2 ^ k times at most
RECURSIVE RunEval(_, _)
RunEval(s, k) ==
  IF k = 0 THEN EvalStep(s)
  ELSE Continue(RunEval(s, k - 1), k - 1, LAMBDA h : h.stack = <<>>, RunEval)

\* The evaluation ran out of steps.
Unfinished == "unfinished"

\* eval(program, env) called by the driver: the state afterwards; val is
\* the object returned
Evaluate(s, program, env) ==
  Let(RunEval([s EXCEPT !.stack = <<evalCall(program, env)>>], StepBits),
      LAMBDA r : IF r.stack = <<>> THEN r ELSE Panic(r, Unfinished))

\* -------------------------------------------------------------------------
\* The self-hosted library (selfHostedBuiltins.go): the source texts of map,
\* reduce and filter, byte for byte
\* -------------------------------------------------------------------------
MapSource ==
  "\n"
  \o "\tlet map = \n"
  \o "\t\tfn(arr, function) {\n"
  \o "\t\t\tlet iter = fn(arr, acc) { \n"
  \o "\t\t\t\tif (len(arr) == 0) { \n"
  \o "\t\t\t\t\tacc \n"
  \o "\t\t\t\t} else { \n"
  \o "\t\t\t\t \titer(rest(arr), push(acc, function(first(arr))))\n"
  \o "\t\t\t\t}\n"
  \o "\t\t\t} \n"
  \o "\t\t\titer(arr, [])\n"
  \o "\t\t}\n"

\* A reduce that hands its function the element first and the result second
ReduceSource_swapped ==
  "\n"
  \o "\tlet reduce = fn(arr, initial, function) {\n"
  \o "\t\tlet iter = fn(arr, result) {\n"
  \o "\t\t\tif (len(arr) == 0) {\n"
  \o "\t\t\tresult\n"
  \o "\t\t} else {\n"
  \o "\t\t\titer(rest(arr), function(first(arr), result));\n"
  \o "\t\t}\n"
  \o "\t}\n"
  \o "\t\titer(arr, initial)\n"
  \o "\t}\n"

ReduceSource ==
  "\n"
  \o "\tlet reduce = fn(arr, initial, function) {\n"
  \o "\t\tlet iter = fn(arr, result) {\n"
  \o "\t\t\tif (len(arr) == 0) {\n"
  \o "\t\t\tresult\n"
  \o "\t\t} else {\n"
  \o "\t\t\titer(rest(arr), function(result, first(arr)));\n"
  \o "\t\t}\n"
  \o "\t}\n"
  \o "\t\titer(arr, initial)\n"
  \o "\t}\n"

FilterSource ==
  "\n"
  \o "\tlet filter = fn(arr, function) {\n"
  \o "\t\tlet iter = fn(arr, acc) {\n"
  \o "\t\t\tif (len(arr) == 0) {\n"
  \o "\t\t\t\tacc\n"
  \o "\t\t\t} else {\n"
  \o "\t\t\t \tlet working = first(arr)\n"
  \o "\t\t\t\tif (function(working)) {\n"
  \o "\t\t\t\t\titer(rest(arr), push(acc, working))\n"
  \o "\t\t\t\t} else {\n"
  \o "\t\t\t\t\titer(rest(arr), acc) \n"
  \o "\t\t\t\t}\t\t\t\n"
  \o "\t\t\t}\n"
  \o "\t\t}\n"
  \o "\t\titer(arr, [])\n"
  \o "\t}\n"

\* lex, parse and evaluate one source text in env; the result is dropped
loadSource(s, input, env) ==
  Then(newParser(newLexer(input)), LAMBDA parser :
    Then(Parse(parser), LAMBDA parsed : Evaluate(s, parsed.node, env)))

loadMap(s, env) == loadSource(s, MapSource, env)

loadRecude(s, env) == loadSource(s, ReduceSource, env)

loadFilter(s, env) == loadSource(s, FilterSource, env)

loadNativeBuiltins(s, env) ==
  Let(loadMap(s, env), LAMBDA m :
    IF Panicked(m) THEN m
    ELSE Let(loadRecude(m, env), LAMBDA r :
           IF Panicked(r) THEN r ELSE loadFilter(r, env)))

\* -------------------------------------------------------------------------
\* The driver (main): one action per step of the read-eval-print loop
\* -------------------------------------------------------------------------
VARIABLES
  pc,        \* "start", "loop" (waiting for input), "exited" or "crashed"
  heap,      \* the environments allocated so far; heap[1] is main's env
  out,       \* the lines written to standard output
  nextId,    \* the number of the next allocation
  input,     \* the input read last
  errors,    \* parser.errors for that input
  result,    \* what eval returned for it (nil when it was not evaluated)
  panic,     \* the panic that ended the process, if any
  trace,     \* history: what the evaluation of that input did
  nInputs,   \* the number of inputs read
  parsing    \* a run of the parser that is followed call by call, if any

vars == <<pc, heap, out, nextId, input, errors, result, panic, trace, nInputs, parsing>>

\* The number of inputs read in one session
MaxInputs == 2

\* The inputs the user may type (each already trimmed by takeInput)
InBindAB == "let a = 5; let b = 10; a + b * 2"
InRebindA == "let a = 7"
InErrorChain ==
  "let y = if (puts(fn() { return [1, -(1 + foo(puts(2)))[puts(3)], puts(4)]; puts(6) }())) { puts(9) } else { puts(10) }; puts(5)"
InErrorInCall ==
  "let r = fn(c) { if (c) { return puts(c, bar); puts(6) }; puts(7) }; r(true); puts(8)"
InLetOfReturn == "let x = if (true) { return 5 }; x"
InTopReturn == "return 5; puts(11)"
InReturnOfReturn == "fn() { return if (true) { return 1 } }()"
InParseErrorLast == "let z = 1; puts(2); let = 5"
InSiblings == "let f = fn() { g() }; let g = fn() { a }; f()"
InLateBinding == "let g = fn() { 42 }; f()"
InSelfCall == "let fact = fn(n) { if (n < 1) { 1 } else { n * fact(n - 1) } }; fact(3)"
InClosures ==
  "let mk = fn(x) { fn() { x } }; let ca = mk(1); let cb = mk(\"s\"); [ca(), cb(), cb(), ca(), mk(true)()]"
InClosuresLater == "[cb(), ca()]"
InInnerLet == "let a = 5; let k = fn() { let a = 1; a }; k(); a"
InSameParameter == "fn(x, x) { let x = x + 1; x }(1, 2)"

Inputs ==
  { InBindAB, InRebindA, InErrorChain, InErrorInCall, InLetOfReturn, InTopReturn,
    InReturnOfReturn, InParseErrorLast, InSiblings, InLateBinding, InSelfCall,
    InClosures, InClosuresLater, InInnerLet, InSameParameter }

EvalState(h, o, id) ==
  [heap |-> h, out |-> o, nextId |-> id, trace |-> <<>>, panic |-> NoPanic,
   depth |-> 0, val |-> NilObject, stack |-> <<>>]

Init ==
  /\ pc = "start"
  /\ heap = <<>>
  /\ out = <<>>
  /\ nextId = 1
  /\ input = ""
  /\ errors = <<>>
  /\ result = NilObject
  /\ panic = NoPanic
  /\ trace = <<>>
  /\ nInputs = 0
  /\ parsing = NilNode

\* main, up to the loop: env := newEnvironment(); loadNativeBuiltins(env)
Startup ==
  /\ pc = "start"
  /\ \E s \in {Let(newEnvironment(EvalState(heap, out, nextId)),
                    LAMBDA e : loadNativeBuiltins(e, e.val))} :
        /\ heap' = s.heap
        /\ out' = s.out
        /\ nextId' = s.nextId
        /\ panic' = s.panic
        /\ pc' = IF Panicked(s) THEN "crashed" ELSE "loop"
  /\ UNCHANGED <<input, errors, result, trace, nInputs, parsing>>

\* A loop body that evaluates the program whatever the parser reported
mainLoopBody_evalAlways(in, s) ==
  Then(newParser(newLexer(in)), LAMBDA parser : Then(Parse(parser), LAMBDA parsed :
    Let(Evaluate([s EXCEPT !.out = s.out \o parsed.p.errors], parsed.node, 1), LAMBDA r :
      IF Panicked(r) THEN [s |-> r, errors |-> parsed.p.errors, evaluated |-> NilObject]
      ELSE IF r.val = NilObject \/ ~CanInspect(r.val)
      THEN [s |-> [r EXCEPT !.out = r.out \o <<"">>],
            errors |-> parsed.p.errors, evaluated |-> r.val]
      ELSE [s |-> [r EXCEPT !.out = r.out \o <<inspect(r.val), "">>],
            errors |-> parsed.p.errors, evaluated |-> r.val])))

\* One iteration of main's loop for an input other than "quit": what it
\* leaves in the evaluation state, the parser's errors and the panic, if any.
\* printed is the output of fmt.Println(evaluated.inspect()).
mainLoopBody(in, s) ==
  Then(newParser(newLexer(in)), LAMBDA parser : Then(Parse(parser), LAMBDA parsed :
    IF Len(parsed.p.errors) # 0
    THEN [s |-> [s EXCEPT !.out = s.out \o parsed.p.errors \o <<"">>],
          errors |-> parsed.p.errors, evaluated |-> NilObject]
    ELSE Let(Evaluate(s, parsed.node, 1), LAMBDA r :
           IF Panicked(r) THEN [s |-> r, errors |-> <<>>, evaluated |-> NilObject]
           ELSE IF r.val = NilObject
           THEN [s |-> [r EXCEPT !.out = r.out \o <<"">>],
                 errors |-> <<>>, evaluated |-> r.val]
           ELSE IF ~CanInspect(r.val)
           THEN [s |-> Panic(r, NilDeref), errors |-> <<>>, evaluated |-> r.val]
           ELSE [s |-> [r EXCEPT !.out = r.out \o <<inspect(r.val), "">>],
                 errors |-> <<>>, evaluated |-> r.val])))

Repl(in) ==
  /\ pc = "loop"
  /\ nInputs < MaxInputs
  /\ in # "quit"
  /\ \E b \in {mainLoopBody(in, EvalState(heap, out, nextId))} :
        /\ heap' = b.s.heap
        /\ out' = b.s.out
        /\ nextId' = b.s.nextId
        /\ trace' = b.s.trace
        /\ panic' = b.s.panic
        /\ errors' = b.errors
        /\ result' = b.evaluated
        /\ pc' = IF Panicked(b.s) THEN "crashed" ELSE "loop"
  /\ input' = in
  /\ nInputs' = nInputs + 1
  /\ UNCHANGED parsing

\* the input "quit" ends main
Quit ==
  /\ pc = "loop"
  /\ pc' = "exited"
  /\ input' = "quit"
  /\ UNCHANGED <<heap, out, nextId, errors, result, panic, trace, nInputs, parsing>>

Next ==
  \/ Startup
  \/ \E in \in Inputs : Repl(in)
  \/ Quit

Spec == Init /\ [][Next]_vars

\* Sessions in which the user types expressions over the values of the
\* language: operators, indexing, calls and the built-in functions.
InDivideByZero == "let d = 0; let q = 7 / d; puts(q)"
InTooFewArguments == "let pick = fn(x, y) { x }; pick(1)"
InMixedTypes ==
  "[1 == 1.5, 1.5 != 1, true == 1, \"a\" != 1, [1] == 1, puts() == false, 0 != puts(), puts != 1]; 1 + 1.5"
InSameTypes ==
  "[1 == 1, 1 == 2, 1 != 1, 1 != 2, 1.5 == 1.5, 1.5 == 2.5, 1.5 != 1.5, 0.5 != 1.5, true == true, true == false, false != false, true != false, puts() == puts(), puts() != puts()]"
InStringEquality == "\"a\" == \"a\""
InTruthiness ==
  "[!true, !false, !puts(), !0, !\"\", ![], !!0, !!puts(), !!false, if (0) { 1 } else { 2 }, if (puts()) { 1 } else { 2 }, if (false) { 1 }, if (\"\") { 1 }, if ([]) { 1 } else { 2 }, if (true) { 1 } else { 2 }, if (false) { 1 } else { 2 }, if (1 > 2) { 1 }]"
InIndexing ==
  "let xs = [10, 20, 30]; [xs[0], xs[1], xs[2], xs[3], xs[-1], [][0], xs[1 + 1], [[1, 2], [3]][1][0]]; xs[true]"
InIndexNotArray == "let n = 5; n[0]"
InArrays ==
  "let a = [1, 2, 3]; let b = push(a, 4); let c = rest(a); let d = rest(push(b, a)); [len(a), first(a), last(a), a, b, c, d, rest([]), push([], a)]"
InArraysLater == "[a, b, c, d, push(rest(a), first(a))]"
InSixElements == "[1, 2, 3, 4, 5, 6]"
InMapFilter ==
  "let xs = [3, 1, 2]; let sq = fn(x) { puts(x); x * x }; [map(xs, sq), filter(xs, fn(x) { x > 1 }), map([], sq), filter([], sq), xs]"
InReduce ==
  "let zs = [1, 2, 3]; [reduce(zs, 10, fn(acc, x) { acc - x }), reduce([], 7, fn(acc, x) { x }), reduce(zs, [], fn(acc, x) { push(acc, x) }), filter([0, false, puts(), \"\"], fn(x) { x }), zs]"
InEvalOrder ==
  "fn() { puts(1); puts }()(puts(2), [puts(3), puts(4)], puts(5)); puts(puts(6), [puts(7), nope, puts(8)], puts(9))"

ValueInputs ==
  { InDivideByZero, InTooFewArguments, InEvalOrder, InMixedTypes, InSameTypes,
    InStringEquality, InTruthiness, InIndexing, InIndexNotArray, InArrays,
    InArraysLater, InSixElements, InMapFilter, InReduce }

NextValues ==
  \/ Startup
  \/ \E in \in ValueInputs : Repl(in)
  \/ Quit

SpecValues == Init /\ [][NextValues]_vars

\* Sessions about names and about values that may be absent: bindings that
\* hide a built-in, blocks without statements, range_array.
InShadowLen ==
  "let len = fn(x) { 0 }; [len([1, 2]), map([1, 2], fn(x) { x + 1 }), filter([1, 2], fn(x) { true }), reduce([1, 2], 5, fn(acc, x) { acc + x }), puts]"
InAfterShadow == "[len([1, 2, 3]), map([4], fn(x) { x + 1 }), filter([4], fn(x) { true }), reduce([4], 5, fn(acc, x) { acc + x })]"
InScopes == "let a = 1; let k = fn(a) { fn(b) { [a, b, k, first, nope] } }; k(2)(3)"
InInnermost ==
  "let first = 5; let h = fn(rest) { let last = rest; [first, rest, last, push] }; h(7)"
InEmptyBlocks ==
  "let e = fn() {}; [if (false) { 1 }, fn() { 2 }(), if (true) { 3 } else {}, if (true) {}, e()]"
InEmptyBlockBound == "let v = if (true) {}; let w = fn() {}(); v"
InEmptyBlockPrinted == "puts(if (false) { 1 } else {})"
InEmptyBlockOperand == "1 + fn() {}()"
InRange ==
  "[range_array(1, 4), range_array(3, 3), range_array(5, 2), range_array(0 - 2, 1), range_array(0 - 1, 0 - 2)]"
InRangeOneArgument == "range_array(1)"
InRangeOfBoolean == "range_array(1, true)"
InRangeToLargest ==
  "range_array(" \o ToString(MaxInt - 1) \o ", " \o ToString(MaxInt) \o ")"

NameInputs ==
  { InShadowLen, InAfterShadow, InScopes, InInnermost, InEmptyBlocks, InEmptyBlockBound,
    InEmptyBlockPrinted, InEmptyBlockOperand, InRange, InRangeOneArgument,
    InRangeOfBoolean, InRangeToLargest }

NextNames ==
  \/ Startup
  \/ \E in \in NameInputs : Repl(in)
  \/ Quit

SpecNames == Init /\ [][NextNames]_vars

\* -------------------------------------------------------------------------
\* The parser followed call by call: parser := newParser(newLexer(input));
\* program := parser.parseProgram(), as main does with every line and
\* loadMap, loadRecude and loadFilter with their sources.
\* -------------------------------------------------------------------------
BinaryOperators == {"==", "!=", "<", "<=", ">", ">=", "+", "-", "*", "/"}

PrefixOperators == {"-", "!"}

\* a op1 b op2 c
OperatorPairs == {"a " \o op1 \o " b " \o op2 \o " c" : op1, op2 \in BinaryOperators}

\* -a op b and !a op b
PrefixThenBinary == {pre \o "a " \o op \o " b" : pre \in PrefixOperators, op \in BinaryOperators}

\* a prefix operator before a call and before an index
PrefixThenPostfix ==
  {pre \o "a" \o post : pre \in PrefixOperators, post \in {"(b)", "[b]", "(b)[c]", "[b](c)"}}

InIllegalFirst == "@ 1"
InIllegalOperand == "1 + @"
InIllegalArgument == "f(1, @)"
InIllegalParameter == "fn(@) { 1 }"
InIllegalValue == "let a = #; a"
InIllegalAfter == "a $"

InIntegerParameter == "fn(1) { 1 }"
InKeywordParameter == "fn(x, let, +) { x }"
InTwoParameters == "fn(x, y) { x }(1, 2)"
InParametersUnseparated == "fn(x y) { x }"

InStringLiteral == "\"a\""
InFunctionLiteral == "fn(x) { x }"
InIfExpression == "if (x) { 1 }"
InIfElseExpression == "if (x) { 1 } else { 2 }"
InNested == "let r = -f(a + b * c, [1, !true][0]) == 2; return r"

InTwoLines == "let a = 1\nlet bb = a == 2\n\n  bb"

InOpenFunction == "fn(x) { x"
InOpenIf == "if (true) { 1"
InOpenElse == "if (true) { 1 } else { 2"
InOpenInner == "fn(x) { if (x) { 1 }"
InClosed == "fn(x) { if (x) { 1 } }"

SyntaxInputs ==
  OperatorPairs \cup PrefixThenBinary \cup PrefixThenPostfix
    \cup { InIllegalFirst, InIllegalOperand, InIllegalArgument, InIllegalParameter,
           InIllegalValue, InIllegalAfter, InIntegerParameter, InKeywordParameter,
           InTwoParameters, InParametersUnseparated, InStringLiteral, InFunctionLiteral,
           InIfExpression, InIfElseExpression, InNested, InTwoLines, InOpenFunction,
           InOpenIf, InOpenElse, InOpenInner, InClosed, InParseErrorLast, InSelfCall,
           InIndexing, MapSource, ReduceSource, FilterSource }

\* The parser before parseProgram is called
ParserStart(in) ==
  [p |-> newParser(newLexer(in)), stack |-> <<Invoke("parseProgram", <<>>)>>, val |-> NilNode]

InitParser ==
  /\ pc = "parse"
  /\ input \in SyntaxInputs
  /\ parsing = ParserStart(input)
  /\ heap = <<>>
  /\ out = <<>>
  /\ nextId = 1
  /\ errors = <<>>
  /\ result = NilObject
  /\ panic = NoPanic
  /\ trace = <<>>
  /\ nInputs = 0

\* The parsing function that runs goes on to its next call or to its return
Parsing ==
  /\ pc = "parse"
  /\ parsing.stack # <<>>
  /\ parsing' = ParserStep(parsing)
  /\ UNCHANGED <<pc, heap, out, nextId, input, errors, result, panic, trace, nInputs>>

\* parseProgram has returned: len(parser.errors) is looked at
Parsed ==
  /\ pc = "parse"
  /\ parsing.stack = <<>>
  /\ pc' = "parsed"
  /\ errors' = parsing.p.errors
  /\ UNCHANGED <<heap, out, nextId, input, result, panic, trace, nInputs, parsing>>

NextParser ==
  \/ Parsing
  \/ Parsed

SpecParser == InitParser /\ [][NextParser]_vars

\* The parser is not halted while it has a step to take
SpecParserFair == SpecParser /\ WF_vars(NextParser)

\* --------------------------------------------------------------------------
\* Properties
\* --------------------------------------------------------------------------

\* The events of the last evaluation at which eval returned an Error
ErrorExits ==
  {i \in DOMAIN trace : trace[i].ev = "exit" /\ trace[i].val.Type = ERR_OBJ}

\* The environment of main
TopEnv == heap[1]

\* obj is of type t, or an array that holds such an object at any depth
RECURSIVE Contains(_, _)
Contains(obj, t) ==
  \/ obj.Type = t
  \/ /\ obj.Type = ARRAY_OBJ
     /\ \E i \in DOMAIN obj.elements : Contains(obj.elements[i], t)

\* No binding of any environment, no element of the result and nothing the
\* evaluation bound, put in an array or gave to an operator is of type t
NothingStoredIs(t) ==
  /\ \A e \in DOMAIN heap :
       \A n \in DOMAIN heap[e].store : ~Contains(heap[e].store[n], t)
  /\ result.Type = ARRAY_OBJ =>
       \A k \in DOMAIN result.elements : ~Contains(result.elements[k], t)
  /\ \A i \in DOMAIN trace :
       /\ trace[i].ev = "set" => trace[i].val.Type # t
       /\ (trace[i].ev = "exit" /\ trace[i].val.Type = ARRAY_OBJ) =>
            \A k \in DOMAIN trace[i].val.elems : trace[i].val.elems[k] # t
       /\ trace[i].ev = "operator" =>
            /\ trace[i].right.Type # t
            /\ "left" \in DOMAIN trace[i] => trace[i].left.Type # t

\* C1: once the evaluation of a sub-expression has yielded an Error, every
\* enclosing prefix, infix, index, call, array literal, if, let, return, block
\* and the program yield that same Error, and nothing else is evaluated: the
\* evaluation only returns from then on, and it ends (every eval that was
\* entered has returned, without a panic) with that Error as its result.
ErrorPropagates ==
  \A i \in ErrorExits :
    /\ \A j \in i..Len(trace) :
         /\ trace[j].ev \in {"exit", "return"}
         /\ trace[j].val = trace[i].val
    /\ result = trace[i].val
    /\ panic = NoPanic
    /\ Cardinality({j \in DOMAIN trace : trace[j].ev = "enter"})
         = Cardinality({j \in DOMAIN trace : trace[j].ev = "exit"})

\* An Error of a callee went up through every kind of enclosing node, and
\* none of the puts calls around it printed anything.
ErrorPropagatesWitness ==
  /\ input = InErrorChain
  /\ nInputs = 1
  /\ out = <<"Error: " \o result.message, "">>
  /\ { "CallExpression", "InfixExpression", "PrefixExpression", "IndexExpression",
       "ArrayLiteral", "ReturnStatement", "BlockStatement", "IfExpression",
       "LetStatement", "Program" } \subseteq {trace[i].node : i \in ErrorExits}

\* C2: no ReturnValue is ever held in user-visible storage: no binding, no
\* array element, no parameter and no operand of an operator is a ReturnValue.
NoReturnValueStored == NothingStoredIs(RETURN_OBJ)

\* C3: no Error is ever held in user-visible storage: no binding, array
\* element or parameter is an Error, and a let whose value is an Error binds
\* nothing (eval returns from it without a set).
NoErrorStored ==
  /\ NothingStoredIs(ERR_OBJ)
  /\ \A i \in ErrorExits :
       trace[i].node = "LetStatement" => (i > 1 /\ trace[i - 1].ev # "set")

\* The let of y got an Error as its value, and y is not bound.
NoErrorStoredWitness ==
  /\ input = InErrorChain
  /\ \E i \in ErrorExits : trace[i].node = "LetStatement"
  /\ "y" \notin DOMAIN TopEnv.store

\* C4: evaluating a Program never returns a ReturnValue.
ProgramResultUnwrapped == result.Type # RETURN_OBJ

\* C5: a call of a user function never evaluates to a ReturnValue.
CallResultUnwrapped ==
  \A i \in DOMAIN trace : trace[i].ev = "return" => trace[i].val.Type # RETURN_OBJ

\* The let statements of the evaluation traced in tr that bound name in scope
\* e: a set in e that the return of a LetStatement evaluated in e follows
LetSets(tr, e, name) ==
  {i \in 1..(Len(tr) - 1) :
     /\ tr[i].ev = "set" /\ tr[i].env = e /\ tr[i].name = name
     /\ tr[i + 1].ev = "exit" /\ tr[i + 1].node = "LetStatement" /\ tr[i + 1].env = e}

Last(S) == CHOOSE i \in S : \A j \in S : j <= i

\* C6 as it is stated: a binding of the top-level environment keeps its value
\* in every later input.
BindingStays ==
  [][pc = "loop" =>
       \A n \in DOMAIN heap[1].store :
         /\ n \in DOMAIN heap'[1].store
         /\ heap'[1].store[n] = heap[1].store[n]]_vars

\* C6: a binding of the top-level environment stays, with the same value,
\* over every later input, also one that ends in an evaluation Error or has
\* parse errors, until a top-level let of the same name is evaluated
\* successfully; from then on the name has the value of that let.
BindingStaysUntilRebound ==
  [][pc = "loop" =>
       \A n \in DOMAIN heap[1].store :
         /\ n \in DOMAIN heap'[1].store
         /\ IF LetSets(trace', 1, n) = {}
            THEN heap'[1].store[n] = heap[1].store[n]
            ELSE Brief(heap'[1].store[n]) = trace'[Last(LetSets(trace', 1, n))].val]_vars

\* r was bound by an input whose later statement yielded an Error, and is
\* still bound after an input with parse errors.
BindingStaysWitness ==
  /\ nInputs = 2
  /\ input = InParseErrorLast
  /\ errors # <<>>
  /\ out[1] = "Error: identifier not found {bar}. Found on line: 1, column: 41."
  /\ "r" \in DOMAIN TopEnv.store
  /\ TopEnv.store["r"].Type = FUNCTION_OBJ

\* C7: an input whose parse leaves errors is not evaluated at all: the step
\* changes no environment, allocates nothing, and prints the parser's errors
\* and the empty line only.
ParseErrorsEvaluateNothing ==
  [][(nInputs' = nInputs + 1 /\ errors' # <<>>) =>
       /\ heap' = heap
       /\ nextId' = nextId
       /\ trace' = <<>>
       /\ result' = NilObject
       /\ out' = out \o errors' \o <<"">>]_vars

\* The let and the puts before the faulty statement did nothing.
ParseErrorsEvaluateNothingWitness ==
  /\ nInputs = 1
  /\ input = InParseErrorLast
  /\ errors # <<>>
  /\ out = errors \o <<"">>
  /\ "z" \notin DOMAIN TopEnv.store

\* C8: a Function refers to the environment it was created in: the
\* environment of a call is enclosed in that very environment, so the body
\* sees what was bound there after the function was created: a function
\* calls itself by its name, and closures of one environment see each other's
\* later bindings.
FunctionsReferToDefiningEnv ==
  /\ \A i \in DOMAIN trace :
       /\ (trace[i].ev = "exit" /\ trace[i].node = "FunctionLiteral") =>
            trace[i].val.env = trace[i].env
       /\ trace[i].ev = "call" => heap[trace[i].env].outer = trace[i].fn.env
  /\ input = InSelfCall => result = Integer(6)
  /\ (input = InSiblings /\ "a" \in DOMAIN TopEnv.store) => result = TopEnv.store["a"]
  /\ (input = InLateBinding /\ "f" \in DOMAIN TopEnv.store) => result = Integer(42)

\* f, made by an earlier input, calls the g that this input bound.
FunctionsReferToDefiningEnvWitness ==
  /\ nInputs = 2
  /\ input = InLateBinding
  /\ "f" \in DOMAIN TopEnv.store
  /\ \E i \in DOMAIN trace : trace[i].ev = "call" /\ trace[i].fn = Brief(TopEnv.store["f"])
  /\ result = Integer(42)

\* C9: every call of a function gets an environment of its own, so the
\* closures that the calls mk(1), mk("s") and mk(true) return give back 1, "s"
\* and true, in whatever order and however late they are called.
ClosuresKeepTheirArgument ==
  [][nInputs' = nInputs + 1 =>
       /\ \A i \in DOMAIN trace' :
            trace'[i].ev = "call" =>
              /\ trace'[i].env > Len(heap)
              /\ \A j \in DOMAIN trace' :
                   (j # i /\ trace'[j].ev = "call") => trace'[j].env # trace'[i].env
       /\ input' = InClosures =>
            /\ result'.Type = ARRAY_OBJ
            /\ result'.elements = <<Integer(1), StringValue("s"), StringValue("s"),
                                    Integer(1), TrueObject>>
       /\ (input' = InClosuresLater /\ {"ca", "cb"} \subseteq DOMAIN heap[1].store) =>
            /\ result'.Type = ARRAY_OBJ
            /\ result'.elements = <<StringValue("s"), Integer(1)>>]_vars

\* The closures made by one input are called by the next, the later one first.
ClosuresKeepTheirArgumentWitness ==
  /\ nInputs = 2
  /\ input = InClosuresLater
  /\ result.Type = ARRAY_OBJ
  /\ result.elements = <<StringValue("s"), Integer(1)>>

\* C10 as it is stated: no step changes the value a name has in a scope.
ScopesAppendOnly ==
  [][\A e \in DOMAIN heap :
       \A n \in DOMAIN heap[e].store :
         /\ n \in DOMAIN heap'[e].store
         /\ heap'[e].store[n] = heap[e].store[n]]_vars

\* C10: a name bound in a scope stays bound there, and its value changes
\* only when a let of that name is evaluated in that very scope, to the value
\* of the last such let; a let in a function's body or any other evaluation
\* leaves it alone.
ScopesChangeOnlyByLet ==
  [][/\ \A e \in DOMAIN heap :
          \A n \in DOMAIN heap[e].store :
            /\ n \in DOMAIN heap'[e].store
            /\ IF LetSets(trace', e, n) = {}
               THEN heap'[e].store[n] = heap[e].store[n]
               ELSE Brief(heap'[e].store[n]) = trace'[Last(LetSets(trace', e, n))].val
     /\ \A i, j \in DOMAIN trace' :
          ( /\ i < j
            /\ trace'[i].ev = "set" /\ trace'[j].ev = "set"
            /\ trace'[i].env = trace'[j].env /\ trace'[i].name = trace'[j].name
            /\ i \in LetSets(trace', trace'[i].env, trace'[i].name) )
          => j \in LetSets(trace', trace'[j].env, trace'[j].name)]_vars

\* a was 5; the input let a = 7 made it 7.
ScopesChangeOnlyByLetWitness ==
  /\ nInputs = 2
  /\ input = InRebindA
  /\ out = <<"25", "", "7", "">>
  /\ TopEnv.store["a"] = Integer(7)


\* --------------------------------------------------------------------------
\* Properties of the values and operators
\* --------------------------------------------------------------------------

\* The operator events of the last evaluation: the infix ones have a left
\* operand
InfixEvents == {i \in DOMAIN trace : trace[i].ev = "operator" /\ "left" \in DOMAIN trace[i]}

PrefixEvents ==
  {i \in DOMAIN trace : trace[i].ev = "operator" /\ "left" \notin DOMAIN trace[i]}

\* C11: an integer division whose right operand is 0 completes, with a value
\* or an Error as the result of the division: it does not abort the
\* interpreter, and the loop is there to read the next input.
DivisionByZeroCompletes ==
  \A i \in InfixEvents :
    (/\ trace[i].operator = "/"
     /\ trace[i].left.Type = INTEGER_OBJ
     /\ trace[i].right = Integer(0)) =>
      /\ panic = NoPanic
      /\ pc # "crashed"
      /\ i < Len(trace)
      /\ trace[i + 1].ev = "exit"
      /\ trace[i + 1].node = "InfixExpression"

\* The applications of user functions in the last evaluation
Applications ==
  {i \in DOMAIN trace : trace[i].ev = "apply" /\ trace[i].fn.Type = FUNCTION_OBJ}

\* C12: a call of a user function with k parameters and n arguments always
\* goes through: the parameters are bound in order to the first k arguments
\* in an environment made for the call, whose outer environment is the
\* function's, and the body is evaluated in it; no argument count aborts the
\* interpreter.
UserCallCompletes ==
  \A i \in Applications :
    LET k == Len(trace[i].params)
        c == i + k + 1
    IN /\ panic # "index out of range"
       /\ c <= Len(trace)
       /\ trace[c].ev = "call"
       /\ trace[c].fn = trace[i].fn
       /\ heap[trace[c].env].outer = trace[i].fn.env
       /\ \A j \in 1..k :
            /\ j <= Len(trace[i].args)
            /\ trace[i + j] = [ev |-> "set", env |-> trace[c].env,
                               name |-> trace[i].params[j], val |-> trace[i].args[j]]

\* The evaluations of array literals and call expressions entered in the
\* last evaluation
ListEvaluations ==
  {i \in DOMAIN trace :
     trace[i].ev = "enter" /\ trace[i].node \in {"ArrayLiteral", "CallExpression"}}

\* j is the event at which the eval entered at event k returns
IsExitOf(j, k) ==
  /\ j > k
  /\ trace[j].ev = "exit"
  /\ trace[j].node = trace[k].node
  /\ trace[j].line = trace[k].line
  /\ trace[j].column = trace[k].column
  /\ trace[j].env = trace[k].env

HasExit(k) == \E j \in DOMAIN trace : IsExitOf(j, k)

ExitOf(k) == CHOOSE j \in DOMAIN trace : IsExitOf(j, k)

\* The evaluations made one after the other from event k on: each is entered
\* right after the one before it has returned
RECURSIVE Consecutive(_)
Consecutive(k) ==
  IF k > Len(trace) \/ trace[k].ev # "enter" THEN <<>>
  ELSE IF ~HasExit(k) THEN <<k>>
  ELSE <<k>> \o Consecutive(ExitOf(k) + 1)

\* The node of event a stands before the node of event b in the source
StandsBefore(a, b) ==
  \/ trace[a].line < trace[b].line
  \/ trace[a].line = trace[b].line /\ trace[a].column < trace[b].column

\* C13: the elements of an array literal are evaluated from left to right, and
\* so are the callee of a call and then its arguments; the array is made of,
\* and the function applied to, the values in that order.  When one of them
\* yields an Error, nothing after it is evaluated, the function is not
\* applied, and the Error is what the array literal or the call yields.
EvaluatedLeftToRight ==
  \A i \in ListEvaluations :
    LET kids == Consecutive(i + 1)
        n == Len(kids)
        vals == [m \in 1..n |-> trace[ExitOf(kids[m])].val]
        next == IF n = 0 THEN i + 1 ELSE ExitOf(kids[n]) + 1
    IN (\A m \in 1..n : HasExit(kids[m])) =>
         /\ \A m \in 1..(n - 1) : StandsBefore(kids[m], kids[m + 1])
         /\ \A m \in 1..(n - 1) : vals[m].Type # ERR_OBJ
         /\ next <= Len(trace)
         /\ IF n > 0 /\ vals[n].Type = ERR_OBJ
            THEN IsExitOf(next, i) /\ trace[next].val = vals[n]
            ELSE IF trace[i].node = "ArrayLiteral"
            THEN /\ IsExitOf(next, i)
                 /\ trace[next].val.Type = ARRAY_OBJ
                 /\ trace[next].val.elements = vals
                 /\ \A m \in 1..n : StandsBefore(i, kids[m])
            ELSE /\ n >= 1
                 /\ StandsBefore(kids[1], i)
                 /\ \A m \in 2..n : StandsBefore(i, kids[m])
                 /\ trace[next].ev = "apply"
                 /\ trace[next].fn = vals[1]
                 /\ trace[next].args = Tail(vals)

\* A call whose callee and arguments print as they are evaluated, then a
\* call with an Error in the middle of an array among its arguments
EvaluatedLeftToRightWitness ==
  /\ input = InEvalOrder
  /\ nInputs = 1
  /\ result.Type = ERR_OBJ
  /\ SubSeq(out, 1, 10) = <<"1", "2", "3", "4", "5", "null", "[null, null]", "null", "6", "7">>
  /\ Len(out) = 12

\* The infix operator applications whose operands are of two different types
MixedEvents ==
  {i \in InfixEvents :
     /\ trace[i].left.Type # trace[i].right.Type
     /\ trace[i].left # NilObject
     /\ trace[i].right # NilObject}

\* C14: with operands of two different types (an Integer and a Float
\* included) `==` yields false, `!=` yields true and every other operator
\* yields a "mismatched types" Error: no operand is converted.
MixedTypesNeverEqual ==
  \A i \in MixedEvents :
    /\ panic = NoPanic
    /\ i < Len(trace)
    /\ trace[i + 1].ev = "exit"
    /\ trace[i + 1].node = "InfixExpression"
    /\ trace[i + 1].val =
         (CASE trace[i].operator = "==" -> FalseObject
            [] trace[i].operator = "!=" -> TrueObject
            [] OTHER -> Error(trace[i + 1].val.message, trace[i + 1].val.id))
    /\ trace[i].operator \notin {"==", "!="} =>
         SubSeq(trace[i + 1].val.message, 1, 16) = "mismatched types"

\* Eight comparisons of values of different types, and then the sum of an
\* Integer and a Float
MixedTypesNeverEqualWitness ==
  /\ input = InMixedTypes
  /\ Cardinality({i \in MixedEvents : trace[i].operator = "=="}) = 4
  /\ Cardinality({i \in MixedEvents : trace[i].operator = "!="}) = 4
  /\ \E i \in MixedEvents :
       /\ trace[i].operator = "+"
       /\ trace[i].left = Integer(1)
       /\ trace[i].right.Type = FLOAT_OBJ
       /\ result = trace[i + 1].val
  /\ result.Type = ERR_OBJ

\* The comparisons by `==` and `!=` of two values of one primitive type
PrimitiveComparisons ==
  {i \in InfixEvents :
     /\ trace[i].operator \in {"==", "!="}
     /\ trace[i].left.Type = trace[i].right.Type
     /\ trace[i].left.Type \in {INTEGER_OBJ, FLOAT_OBJ, BOOL_OBJ, STRING_OBJ, NULL_OBJ}}

\* C15: for two values of one primitive type (Integer, Float, Boolean,
\* String, Null), `==` yields true exactly when the two values are equal and
\* `!=` yields the opposite.
PrimitiveEquality ==
  \A i \in PrimitiveComparisons :
    /\ panic = NoPanic
    /\ i < Len(trace)
    /\ trace[i + 1].ev = "exit"
    /\ trace[i + 1].node = "InfixExpression"
    /\ trace[i + 1].val =
         nativeBoolToBoolObj((trace[i].operator = "==") = (trace[i].left = trace[i].right))

\* The comparisons of Integers, Floats, Booleans and nulls give what C15
\* says
PrimitiveEqualityHoldsBesidesStrings ==
  /\ input = InSameTypes
  /\ PrimitiveEquality
  /\ result.Type = ARRAY_OBJ
  /\ {trace[i].left.Type : i \in PrimitiveComparisons}
       = {INTEGER_OBJ, FLOAT_OBJ, BOOL_OBJ, NULL_OBJ}
  /\ [k \in DOMAIN result.elements |-> result.elements[k].value]
       = <<TRUE, FALSE, FALSE, TRUE, TRUE, FALSE, FALSE, TRUE, TRUE, FALSE, FALSE, TRUE,
           TRUE, FALSE>>

\* The values that count as false
Falsy == {FalseObject, NullObject}

\* C16: truthiness is the same in `!` and in `if`: `!v` is true exactly when
\* v is false or null, and false for every other value (0, "" and [] among
\* them); an `if` evaluates its consequence exactly when its condition is
\* neither false nor null, otherwise its alternative when there is one, and
\* yields null when there is none.
TruthinessIsUniform ==
  /\ \A i \in PrefixEvents :
       trace[i].operator = "!" =>
         /\ i < Len(trace)
         /\ trace[i + 1].ev = "exit"
         /\ trace[i + 1].node = "PrefixExpression"
         /\ trace[i + 1].val = nativeBoolToBoolObj(trace[i].right \in Falsy)
  /\ \A i \in DOMAIN trace :
       trace[i].ev = "branch" =>
         /\ (trace[i].taken = "consequence") = (trace[i].condition \notin Falsy)
         /\ i < Len(trace)
         /\ IF trace[i].taken = "none"
            THEN /\ trace[i + 1].ev = "exit"
                 /\ trace[i + 1].node = "IfExpression"
                 /\ trace[i + 1].val = NullObject
            ELSE /\ trace[i + 1].ev = "enter"
                 /\ trace[i + 1].node = "BlockStatement"
                 /\ trace[i + 1].line = trace[i].line
                 /\ trace[i + 1].column = trace[i].column

\* `!`, `!!` and `if` applied to true, false, null, 0, "" and []
TruthinessIsUniformWitness ==
  /\ input = InTruthiness
  /\ result.Type = ARRAY_OBJ
  /\ SubSeq(result.elements, 1, 9)
       = <<FalseObject, TrueObject, TrueObject, FalseObject, FalseObject, FalseObject,
           TrueObject, FalseObject, FalseObject>>
  /\ SubSeq(result.elements, 10, 17)
       = <<Integer(1), Integer(2), NullObject, Integer(1), Integer(1), Integer(1),
           Integer(2), NullObject>>
  /\ {trace[i].taken : i \in {j \in DOMAIN trace : trace[j].ev = "branch"}}
       = {"consequence", "alternative", "none"}

\* The index expressions of the last evaluation whose operand and index both
\* evaluated to an object that is no Error
Indexings ==
  {i \in DOMAIN trace :
     /\ trace[i].ev = "enter"
     /\ trace[i].node = "IndexExpression"
     /\ LET kids == Consecutive(i + 1)
        IN /\ Len(kids) = 2
           /\ \A m \in 1..2 :
                /\ HasExit(kids[m])
                /\ trace[ExitOf(kids[m])].val.Type \notin {ERR_OBJ, NilObject.Type}}

\* C17: indexing an Array of n elements with an Integer i yields the element
\* at position i when 0 <= i <= n - 1 and null otherwise (a negative i
\* included); indexing anything but an Array, or with anything but an
\* Integer, yields an Error.
IndexInBoundsOrNull ==
  \A i \in Indexings :
    LET kids == Consecutive(i + 1)
        left == trace[ExitOf(kids[1])].val
        index == trace[ExitOf(kids[2])].val
        next == ExitOf(kids[2]) + 1
    IN /\ panic = NoPanic
       /\ IsExitOf(next, i)
       /\ IF left.Type = ARRAY_OBJ /\ index.Type = INTEGER_OBJ
          THEN trace[next].val =
                 IF 0 <= index.value /\ index.value <= Len(left.elements) - 1
                 THEN left.elements[index.value + 1]
                 ELSE NullObject
          ELSE trace[next].val.Type = ERR_OBJ

\* Every position of a three-element array, the positions 3 and -1, an empty
\* array, an array in an array, and then a Boolean as the index
IndexInBoundsOrNullWitness ==
  /\ input = InIndexing
  /\ result.Type = ERR_OBJ
  /\ \E i \in DOMAIN trace :
       /\ trace[i].ev = "exit"
       /\ trace[i].node = "ArrayLiteral"
       /\ trace[i].val.elements
            = <<Integer(10), Integer(20), Integer(30), NullObject, NullObject, NullObject,
                Integer(30), Integer(3)>>
  /\ Cardinality(Indexings) = 10

\* An Integer is indexed
IndexOfNonArrayWitness ==
  /\ input = InIndexNotArray
  /\ Cardinality(Indexings) = 1
  /\ result.Type = ERR_OBJ
  /\ SubSeq(result.message, 1, 37) = "index operator not supported: INTEGER"

\* The arrays in an object of the trace, at any depth
RECURSIVE ArraysIn(_)
ArraysIn(obj) ==
  CASE obj.Type = ARRAY_OBJ ->
         {obj} \cup UNION {ArraysIn(obj.elements[k]) : k \in DOMAIN obj.elements}
    [] obj.Type = RETURN_OBJ -> ArraysIn(obj.value)
    [] OTHER -> {}

\* The objects bound in the environments
StoredObjects ==
  UNION {{Brief(heap[e].store[n]) : n \in DOMAIN heap[e].store} : e \in DOMAIN heap}

\* The objects the last evaluation computed or handed to a function
TracedObjects ==
  UNION {{trace[i][fld] : fld \in DOMAIN trace[i] \cap {"val", "left", "right", "condition"}}
           \cup (IF "args" \in DOMAIN trace[i]
                 THEN {trace[i].args[k] : k \in DOMAIN trace[i].args}
                 ELSE {}) : i \in DOMAIN trace}

\* Every array there is, as deep in other arrays as it may be
AllArrays == UNION {ArraysIn(obj) : obj \in StoredObjects \cup TracedObjects \cup {Brief(result)}}

\* The calls of built-in functions in the last evaluation
BuiltinCalls == {i \in DOMAIN trace : trace[i].ev = "builtin"}

\* The calls of the built-in named fn with an array as the first argument
ArrayCalls(fn) ==
  {i \in BuiltinCalls :
     /\ trace[i].fn = fn
     /\ Len(trace[i].args) >= 1
     /\ trace[i].args[1].Type = ARRAY_OBJ}

\* C18: no built-in changes an array.  An array is the same wherever it is
\* met, in a binding, as an argument or in a result, before and after any
\* call of push, rest, first, last and len; push(a, x) returns a new array,
\* a's elements followed by x, and rest(a) for a non-empty a returns a new
\* array, a's elements from the second on.
ArraysNeverChange ==
  /\ \A a, b \in AllArrays : a.id = b.id => a = b
  /\ \A i \in ArrayCalls("push") :
       Len(trace[i].args) = 2 =>
         /\ trace[i].val.Type = ARRAY_OBJ
         /\ trace[i].val.elements = Append(trace[i].args[1].elements, trace[i].args[2])
         /\ \A a \in ArraysIn(trace[i].args[1]) \cup ArraysIn(trace[i].args[2]) :
              a.id # trace[i].val.id
  /\ \A i \in ArrayCalls("rest") :
       (Len(trace[i].args) = 1 /\ Len(trace[i].args[1].elements) > 0) =>
         /\ trace[i].val.Type = ARRAY_OBJ
         /\ trace[i].val.elements = Tail(trace[i].args[1].elements)
         /\ \A a \in ArraysIn(trace[i].args[1]) : a.id # trace[i].val.id

\* Arrays made by push and rest out of a, and a as it was, one input later
ArraysNeverChangeWitness ==
  /\ input = InArraysLater
  /\ nInputs = 2
  /\ ArrayCalls("push") # {}
  /\ ArrayCalls("rest") # {}
  /\ result.Type = ARRAY_OBJ
  /\ [k \in 1..5 |-> Len(result.elements[k].elements)] = <<3, 4, 2, 4, 3>>
  /\ result.elements[1].elements = <<Integer(1), Integer(2), Integer(3)>>
  /\ result.elements[5].elements = <<Integer(2), Integer(3), Integer(1)>>
  /\ result.elements[4].elements[4] = result.elements[1]

\* The line main printed for the result of the last input
Printed == out[Len(out) - 1]

\* C19: the display form of an array of at most 6 elements lists all its
\* elements and has no `...`; that of an array of more than 6 elements lists
\* its first 6 elements, followed by `, ...` inside the brackets.
ArrayDisplay ==
  (pc # "crashed" /\ result.Type = ARRAY_OBJ) =>
    LET n == Len(result.elements)
        strs == [k \in 1..Min(n, 6) |-> inspect(result.elements[k])]
    IN Printed = IF n <= 6
                 THEN "[" \o JoinStrings(strs, ", ") \o "]"
                 ELSE "[" \o JoinStrings(strs, ", ") \o ", ...]"

\* Arrays of fewer and of more than six elements are displayed as C19 says
ArrayDisplayHoldsButForSix ==
  /\ input = InArraysLater
  /\ nInputs = 2
  /\ ArrayDisplay
  /\ out[Len(out) - 3] = "[3, 1, 3, [1, 2, 3], [1, 2, 3, 4], [2, 3], ...]"
  /\ Printed = "[[1, 2, 3], [1, 2, 3, 4], [2, 3], [2, 3, 4, [1, 2, 3]], [2, 3, 1]]"

\* The applications and the returns of the user function fn in the last
\* evaluation
AppliesOf(fn) == {i \in DOMAIN trace : trace[i].ev = "apply" /\ trace[i].fn = fn}

ReturnsOf(fn) == {i \in DOMAIN trace : trace[i].ev = "return" /\ trace[i].fn = fn}

\* The event at which the application at event i returns, 0 when it does not
ReturnOf(i) ==
  LET A == AppliesOf(trace[i].fn)
      R == ReturnsOf(trace[i].fn)
      C == {j \in R : /\ j > i
                      /\ Cardinality({a \in A : i < a /\ a < j})
                           = Cardinality({r \in R : i < r /\ r < j})}
  IN IF C = {} THEN 0 ELSE CHOOSE j \in C : \A k \in C : j <= k

\* The numbers of S in increasing order
RECURSIVE Ascending(_)
Ascending(S) ==
  IF S = {} THEN <<>>
  ELSE LET m == CHOOSE x \in S : \A y \in S : x <= y
       IN <<m>> \o Ascending(S \ {m})

\* The elements of elems, in order, whose position keep holds of
RECURSIVE Chosen(_, _, _)
Chosen(elems, keep, m) ==
  IF m > Len(elems) THEN <<>>
  ELSE (IF keep[m] THEN <<elems[m]>> ELSE <<>>) \o Chosen(elems, keep, m + 1)

\* The applications, in the last evaluation, of the function that startup
\* bound to name, to an array, perhaps an initial value, and a user function
\* that returned no Error; the application itself returned
BootstrapCalls(name, arity) ==
  IF pc = "start" \/ name \notin DOMAIN heap[1].store THEN {}
  ELSE {i \in AppliesOf(Brief(heap[1].store[name])) :
          /\ Len(trace[i].args) = arity
          /\ trace[i].args[1].Type = ARRAY_OBJ
          /\ trace[i].args[arity].Type = FUNCTION_OBJ
          /\ ReturnOf(i) # 0
          /\ \A k \in ReturnsOf(trace[i].args[arity]) : trace[k].val.Type # ERR_OBJ}

\* The applications and the returns of the function given to the
\* application at event i, in order
CallbackApplies(i) ==
  Ascending({k \in AppliesOf(trace[i].args[Len(trace[i].args)]) : i < k /\ k < ReturnOf(i)})

CallbackReturns(i) ==
  Ascending({k \in ReturnsOf(trace[i].args[Len(trace[i].args)]) : i < k /\ k < ReturnOf(i)})

\* The application at event i leaves its array as it is, and applied its
\* function once for each element
OncePerElement(i) ==
  /\ Len(CallbackApplies(i)) = Len(trace[i].args[1].elements)
  /\ Len(CallbackReturns(i)) = Len(trace[i].args[1].elements)
  /\ \A a \in AllArrays : a.id = trace[i].args[1].id => a = trace[i].args[1]

\* C20: with map, filter and reduce as startup binds them, map(xs, f) is
\* [f(x1), ..., f(xn)] with f applied to x1, ..., xn in that order,
\* filter(xs, p) is the sequence of the elements of xs, in order, for which
\* p yields neither false nor null, and reduce(xs, init, g) is
\* g(...g(g(init, x1), x2)..., xn), which is init for an empty xs; xs itself
\* stays as it is.
BootstrapFunctions ==
  /\ \A i \in BootstrapCalls("map", 2) :
       LET xs == trace[i].args[1].elements
           calls == CallbackApplies(i)
           rets == CallbackReturns(i)
       IN /\ OncePerElement(i)
          /\ \A m \in DOMAIN xs : trace[calls[m]].args = <<xs[m]>>
          /\ trace[ReturnOf(i)].val.Type = ARRAY_OBJ
          /\ trace[ReturnOf(i)].val.elements = [m \in DOMAIN xs |-> trace[rets[m]].val]
  /\ \A i \in BootstrapCalls("filter", 2) :
       LET xs == trace[i].args[1].elements
           calls == CallbackApplies(i)
           rets == CallbackReturns(i)
       IN /\ OncePerElement(i)
          /\ \A m \in DOMAIN xs : trace[calls[m]].args = <<xs[m]>>
          /\ trace[ReturnOf(i)].val.Type = ARRAY_OBJ
          /\ trace[ReturnOf(i)].val.elements
               = Chosen(xs, [m \in DOMAIN xs |-> trace[rets[m]].val \notin Falsy], 1)
  /\ \A i \in BootstrapCalls("reduce", 3) :
       LET xs == trace[i].args[1].elements
           calls == CallbackApplies(i)
           rets == CallbackReturns(i)
           acc == [m \in 0..Len(xs) |-> IF m = 0 THEN trace[i].args[2]
                                         ELSE trace[rets[m]].val]
       IN /\ OncePerElement(i)
          /\ \A m \in DOMAIN xs : trace[calls[m]].args = <<acc[m - 1], xs[m]>>
          /\ trace[ReturnOf(i)].val = acc[Len(xs)]

\* reduce with a subtraction, of an empty array, and building an array,
\* then filter; the input before applied map and filter to xs
BootstrapFunctionsWitness ==
  /\ input = InReduce
  /\ nInputs = 2
  /\ Cardinality(BootstrapCalls("reduce", 3)) = 3
  /\ Cardinality(BootstrapCalls("filter", 2)) = 1
  /\ out = <<"3", "1", "2", "[[9, 1, 4], [3, 2], [], [], [3, 1, 2]]", "",
             "[4, 7, [1, 2, 3], [0, ], [1, 2, 3]]", "">>
  /\ heap[1].store["xs"].elements = <<Integer(3), Integer(1), Integer(2)>>

\* map and filter applied to an array of three elements and to an empty one
MapAndFilterWitness ==
  /\ input = InMapFilter
  /\ nInputs = 1
  /\ Cardinality(BootstrapCalls("map", 2)) = 2
  /\ Cardinality(BootstrapCalls("filter", 2)) = 2

\* --------------------------------------------------------------------------
\* Properties of names, of absent values and of range_array
\* --------------------------------------------------------------------------

\* The evaluations of an Identifier in tr: the entry into each
Lookups(tr) ==
  {i \in 1..(Len(tr) - 1) : tr[i].ev = "enter" /\ tr[i].node = "Identifier"}

\* The scopes from e outward
RECURSIVE ScopeChain(_, _)
ScopeChain(h, e) == IF e = 0 THEN <<>> ELSE <<e>> \o ScopeChain(h, h[e].outer)

\* The sets of name in scope e before the i-th event of tr
SetsBefore(tr, i, e, name) ==
  {j \in 1..(i - 1) : tr[j].ev = "set" /\ tr[j].env = e /\ tr[j].name = name}

\* Scope e binds name when the i-th event of tr happens: it did when the
\* input was read (h is the heap then), or the input has bound it since.
BoundAt(h, tr, i, e, name) ==
  \/ e \in DOMAIN h /\ name \in DOMAIN h[e].store
  \/ SetsBefore(tr, i, e, name) # {}

\* What scope e holds for name then
HeldAt(h, tr, i, e, name) ==
  IF SetsBefore(tr, i, e, name) # {} THEN tr[Last(SetsBefore(tr, i, e, name))].val
  ELSE Brief(h[e].store[name])

\* The positions in the chain of the scopes that bind name
Binders(h, hNew, tr, i, name) ==
  {k \in DOMAIN ScopeChain(hNew, tr[i].env) :
     BoundAt(h, tr, i, ScopeChain(hNew, tr[i].env)[k], name)}

First(S) == CHOOSE i \in S : \A j \in S : i <= j

IdentifierNotFound(name) == "identifier not found {" \o name \o "}."

\* The lookup that enters at the i-th event of tr yields what the innermost
\* scope binding the name holds, else the built-in of that name, else the
\* Error that names it.
ResolvedInOrder(h, hNew, tr, i) ==
  LET name == tr[i].name
      chain == ScopeChain(hNew, tr[i].env)
      binders == Binders(h, hNew, tr, i, name)
      got == tr[i + 1]
  IN /\ got.ev = "exit" /\ got.node = "Identifier"
     /\ IF binders # {} THEN got.val = HeldAt(h, tr, i, chain[First(binders)], name)
        ELSE IF name \in BuiltinNames THEN got.val = Builtin(name)
        ELSE /\ got.val.Type = ERR_OBJ
             /\ SubSeq(got.val.message, 1, Len(IdentifierNotFound(name)))
                  = IdentifierNotFound(name)

\* C21: an identifier is resolved in the chain of environments from the
\* innermost scope outward, then in the table of built-ins, and yields the
\* Error naming it when it is in neither: a let of a built-in's name hides
\* the built-in from every later lookup that reaches that scope, the lookups
\* inside map, filter and reduce included.
NamesResolvedInnermostFirst ==
  [][\A i \in Lookups(trace') : ResolvedInOrder(heap, heap', trace', i)]_vars

\* len was bound by the input; map, filter and reduce, called afterwards,
\* find the user's len from their own scopes and take every array for empty.
NamesResolvedInnermostFirstWitness ==
  /\ input = InShadowLen
  /\ out[Len(out) - 1] = "[0, [], [], 5, builtin function]"
  /\ \E i \in Lookups(trace) :
       /\ trace[i].name = "len"
       /\ trace[i].env # 1
       /\ heap[trace[i].env].outer # 1
       /\ trace[i + 1].val.Type = FUNCTION_OBJ
  /\ \E i \in Lookups(trace) : trace[i].name = "puts" /\ trace[i + 1].val = Builtin("puts")

\* A name bound nowhere yields the Error; a parameter hides the outer binding
\* of its name.
UnknownNameWitness ==
  /\ input = InScopes
  /\ result.Type = ERR_OBJ
  /\ \E i \in Lookups(trace) :
       /\ trace[i].name = "a"
       /\ trace[i + 1].val = Integer(2)
       /\ Brief(heap[1].store["a"]) = Integer(1)
  /\ \E i \in Lookups(trace) : trace[i].name = "first" /\ trace[i + 1].val = Builtin("first")

\* The applications of range_array in the trace
RangeCalls ==
  {i \in DOMAIN trace : trace[i].ev = "apply" /\ trace[i].fn = Builtin("range_array")}

\* The Integers a, a + 1, .., b; none when a > b
Counting(a, b) == [k \in 1..(IF a > b THEN 0 ELSE b - a + 1) |-> Integer(a + k - 1)]

\* The application at the i-th event returned, and returned what range_array
\* is to return for its arguments
RangeReturned(i) ==
  /\ i < Len(trace)
  /\ trace[i + 1].ev = "builtin"
  /\ trace[i + 1].fn = "range_array"
  /\ LET args == trace[i].args
         val == trace[i + 1].val
     IN IF Len(args) = 2 /\ args[1].Type = INTEGER_OBJ /\ args[2].Type = INTEGER_OBJ
        THEN /\ val.Type = ARRAY_OBJ
             /\ val.elements = Counting(args[1].value, args[2].value)
        ELSE val.Type = ERR_OBJ

\* C27: range_array(a, b) returns for all Integers a and b, with the
\* Integers a..b in ascending order (none when a > b), also when b is the
\* largest Integer; with an argument that is no Integer or with a number of
\* arguments other than two it returns an Error.
RangeArrayReturns == \A i \in RangeCalls : RangeReturned(i)

\* What holds of range_array: the same, when b is not the largest Integer.
RangeArrayReturnsBelowLargest ==
  \A i \in RangeCalls :
    \/ RangeReturned(i)
    \/ /\ Len(trace[i].args) = 2
       /\ trace[i].args[2] = Integer(MaxInt)
       /\ trace[i].args[1].Type = INTEGER_OBJ
       /\ panic = OutOfMemory

\* The kinds of node that are expressions
ExpressionKinds ==
  {"ArrayLiteral", "BooleanLiteral", "CallExpression", "FloatLiteral", "FunctionLiteral",
   "Identifier", "IfExpression", "IndexExpression", "InfixExpression", "IntegerLiteral",
   "PrefixExpression", "StringLiteral"}

\* C29: every expression of a program without parse errors evaluates to a
\* runtime value, never to an absent one: an if whose selected block has no
\* statement and a call of a function whose body has none yield null, which
\* can be bound, used as an operand, passed to puts and stored in an array.
ExpressionsYieldValues ==
  /\ \A i \in DOMAIN trace :
       (trace[i].ev = "exit" /\ trace[i].node \in ExpressionKinds)
         => trace[i].val # NilObject
  /\ panic # NilDeref

\* What holds: the absent value comes from an if or from a call, and from
\* there into a name; no other expression yields it.
AbsentFromBlocksOnly ==
  \A i \in DOMAIN trace :
    (trace[i].ev = "exit" /\ trace[i].node \in ExpressionKinds /\ trace[i].val = NilObject)
      => trace[i].node \in {"IfExpression", "CallExpression", "Identifier"}

\* --------------------------------------------------------------------------
\* Properties of the lexer and of the parser
\* --------------------------------------------------------------------------

\* The tokens of the input, the first EOF being the last of them
Tokens == parsing.p.lexer.tokens

\* The program that parseProgram has returned
Program == parsing.val

TokensOf(tokenType) == {i \in DOMAIN Tokens : Tokens[i].tokenType = tokenType}

\* The members of a list as a set
Members(list) == {list[i] : i \in DOMAIN list}

\* The nodes a node holds
Children(n) ==
  CASE n.node \in {"Program", "BlockStatement"} -> Members(n.statements)
    [] n.node = "ExpressionStatement" -> {n.expression}
    [] n.node = "LetStatement" -> {n.name, n.value}
    [] n.node = "ReturnStatement" -> {n.value}
    [] n.node = "ArrayLiteral" -> Members(n.elements)
    [] n.node = "CallExpression" -> {n.function} \cup Members(n.arguments)
    [] n.node = "FunctionLiteral" -> Members(n.parameters) \cup {n.body}
    [] n.node = "IndexExpression" -> {n.left, n.index}
    [] n.node = "IfExpression" -> {n.condition, n.consequence, n.alternative}
    [] n.node = "InfixExpression" -> {n.left, n.right}
    [] n.node = "PrefixExpression" -> {n.right}
    [] OTHER -> {}

\* A node and the nodes below it
RECURSIVE Nodes(_)
Nodes(n) == {n} \cup UNION {Nodes(c) : c \in Children(n)}

FunctionLiterals == {n \in Nodes(Program) : n.node = "FunctionLiteral"}

\* The tokens that the parser took for parameters
ParameterTokens == UNION {{f.parameters[i].token : i \in DOMAIN f.parameters} :
                            f \in FunctionLiterals}

\* C22: an input with an ILLEGAL token leaves a parser error, wherever the
\* token stands: at the start of a statement, as an operand, in an argument
\* list or in the parameter list of a function; so it is not evaluated.
IllegalTokensLeaveErrors ==
  (pc = "parsed" /\ TokensOf(TokenType.ILLEGAL) # {}) => errors # <<>>

\* What holds: an ILLEGAL token that is no parameter leaves an error.
IllegalTokensBesidesParametersLeaveErrors ==
  (pc = "parsed" /\ \E i \in TokensOf(TokenType.ILLEGAL) : Tokens[i] \notin ParameterTokens)
    => errors # <<>>

\* C23: every parameter of a FunctionLiteral comes from an IDENT token: a
\* token of another kind where a parameter is to stand leaves a parse error.
ParametersAreIdentifiers ==
  (pc = "parsed" /\ errors = <<>>)
    => \A t \in ParameterTokens : t.tokenType = TokenType.IDENT

\* What holds: the name of a let is an IDENT token.
LetNamesAreIdentifiers ==
  pc = "parsed" =>
    \A n \in Nodes(Program) :
      n.node = "LetStatement" => n.name.token.tokenType = TokenType.IDENT

\* C30: when the input ends before the brace that closes the body of a
\* function or the block of an if or else, the parser leaves an error, so the
\* input is not evaluated.  (The braces of the inputs are those of function
\* bodies and of if and else blocks.)
OpenBlocksLeaveErrors ==
  (pc = "parsed"
     /\ Cardinality(TokensOf(TokenType.LBRACE)) > Cardinality(TokensOf(TokenType.RBRACE)))
    => errors # <<>>

\* What holds: the block that the end of the input cuts short is parsed as
\* if the brace were there.
OpenBlocksParseAsClosed ==
  (pc = "parsed" /\ input = InOpenInner)
    => /\ errors = <<>>
       /\ toString(Program) = toString(Parse(newParser(newLexer(InClosed))).node)

\* A node without its tokens: what two parses have in common when they
\* yield the same tree from texts laid out differently
RECURSIVE Shape(_)
Shape(n) ==
  CASE n.node \in {"Program", "BlockStatement"} ->
         [node |-> n.node, statements |-> [i \in DOMAIN n.statements |-> Shape(n.statements[i])]]
    [] n.node = "ExpressionStatement" -> [node |-> n.node, expression |-> Shape(n.expression)]
    [] n.node = "LetStatement" ->
         [node |-> n.node, name |-> Shape(n.name), value |-> Shape(n.value)]
    [] n.node = "ReturnStatement" -> [node |-> n.node, value |-> Shape(n.value)]
    [] n.node = "ArrayLiteral" ->
         [node |-> n.node, elements |-> [i \in DOMAIN n.elements |-> Shape(n.elements[i])]]
    [] n.node = "CallExpression" ->
         [node |-> n.node, function |-> Shape(n.function),
          arguments |-> [i \in DOMAIN n.arguments |-> Shape(n.arguments[i])]]
    [] n.node = "FunctionLiteral" ->
         [node |-> n.node,
          parameters |-> [i \in DOMAIN n.parameters |-> Shape(n.parameters[i])],
          body |-> Shape(n.body)]
    [] n.node = "IndexExpression" ->
         [node |-> n.node, left |-> Shape(n.left), index |-> Shape(n.index)]
    [] n.node = "IfExpression" ->
         [node |-> n.node, condition |-> Shape(n.condition),
          consequence |-> Shape(n.consequence), alternative |-> Shape(n.alternative)]
    [] n.node = "InfixExpression" ->
         [node |-> n.node, operator |-> n.operator, left |-> Shape(n.left),
          right |-> Shape(n.right)]
    [] n.node = "PrefixExpression" ->
         [node |-> n.node, operator |-> n.operator, right |-> Shape(n.right)]
    [] n.node \in {"BooleanLiteral", "FloatLiteral", "Identifier", "IntegerLiteral",
                   "StringLiteral"} ->
         [node |-> n.node, value |-> n.value]
    [] OTHER -> n

\* Trees to compare a parse with
Name(x) == [node |-> "Identifier", value |-> x]

Infix(left, op, right) ==
  [node |-> "InfixExpression", operator |-> op, left |-> left, right |-> right]

Prefix(op, right) == [node |-> "PrefixExpression", operator |-> op, right |-> right]

CallOf(function, argument) ==
  [node |-> "CallExpression", function |-> function, arguments |-> <<argument>>]

IndexOf(left, index) == [node |-> "IndexExpression", left |-> left, index |-> index]

\* The program of the one expression statement e
OneExpression(e) ==
  [node |-> "Program",
   statements |-> <<[node |-> "ExpressionStatement", expression |-> e]>>]

\* The input is text and has been parsed, without errors, into the tree e
ParsedAs(text, e) ==
  input = text => (errors = <<>> /\ Shape(Program) = OneExpression(e))

\* C24: a op1 b op2 c is parsed as ((a op1 b) op2 c) when op1 binds at
\* least as tightly as op2 and as (a op1 (b op2 c)) when it binds less
\* tightly; a prefix - or ! binds more tightly than every binary operator
\* and less tightly than the ( of a call and the [ of an index.
OperatorsBindByPrecedence ==
  pc = "parsed" =>
    /\ \A op1, op2 \in BinaryOperators :
         ParsedAs("a " \o op1 \o " b " \o op2 \o " c",
                  IF getPrec(op1) >= getPrec(op2)
                  THEN Infix(Infix(Name("a"), op1, Name("b")), op2, Name("c"))
                  ELSE Infix(Name("a"), op1, Infix(Name("b"), op2, Name("c"))))
    /\ \A pre \in PrefixOperators :
         /\ \A op \in BinaryOperators :
              ParsedAs(pre \o "a " \o op \o " b",
                       Infix(Prefix(pre, Name("a")), op, Name("b")))
         /\ ParsedAs(pre \o "a(b)", Prefix(pre, CallOf(Name("a"), Name("b"))))
         /\ ParsedAs(pre \o "a[b]", Prefix(pre, IndexOf(Name("a"), Name("b"))))
         /\ ParsedAs(pre \o "a(b)[c]",
                     Prefix(pre, IndexOf(CallOf(Name("a"), Name("b")), Name("c"))))
         /\ ParsedAs(pre \o "a[b](c)",
                     Prefix(pre, CallOf(IndexOf(Name("a"), Name("b")), Name("c"))))

\* The product is the right operand of the sum.
OperatorsBindByPrecedenceWitness ==
  /\ pc = "parsed"
  /\ input = "a + b * c"
  /\ errors = <<>>
  /\ Shape(Program)
       = OneExpression(Infix(Name("a"), "+", Infix(Name("b"), "*", Name("c"))))

\* Of two operators of one precedence the left one takes its operands first.
LeftOperatorFirstWitness ==
  /\ pc = "parsed"
  /\ input = "a - b + c"
  /\ Shape(Program)
       = OneExpression(Infix(Infix(Name("a"), "-", Name("b")), "+", Name("c")))

\* The call of the indexed element is the operand of the prefix operator.
PrefixBindsWitness ==
  /\ pc = "parsed"
  /\ input = "!a[b](c)"
  /\ Shape(Program)
       = OneExpression(Prefix("!", CallOf(IndexOf(Name("a"), Name("b")), Name("c"))))

\* The text of the program parsed again
Reparse(program) ==
  Then(toString(program), LAMBDA text :
    Then(newParser(newLexer(text)), LAMBDA parser : Parse(parser)))

Reparsed == Reparse(Program)

\* C25: the text that toString gives of a program parsed without errors is
\* parsed without errors into a tree equal to the program: so for if
\* expressions, function literals, string literals, prefix and infix
\* expressions, calls, index expressions and array literals.
TextParsesBack ==
  (pc = "parsed" /\ errors = <<>>)
    => /\ Reparsed.p.errors = <<>>
       /\ Shape(Reparsed.node) = Shape(Program)

\* What holds: the text of one expression statement made of names, prefix
\* and infix operators, calls and index expressions parses back.
OperatorTextParsesBack ==
  (pc = "parsed" /\ input \in OperatorPairs \cup PrefixThenBinary \cup PrefixThenPostfix)
    => /\ errors = <<>>
       /\ Reparsed.p.errors = <<>>
       /\ Shape(Reparsed.node) = Shape(Program)

\* The 0-based offsets of the newlines of the input
Newlines == {o \in 0..(Len(input) - 1) : ByteAt(input, o) = "\n"}

\* The offset of the first character of the line-th line
LineStart(line) ==
  IF line = 1 THEN 0
  ELSE 1 + (CHOOSE o \in Newlines : Cardinality({n \in Newlines : n < o}) = line - 2)

\* The text of a token as it stands in the input
TokenText(t) == IF t.tokenType = TokenType.STRING_T THEN "\"" \o t.literal ELSE t.literal

\* The token's text stands in the input from the column-th character of
\* the line-th line on
StandsAt(t, line, column) ==
  /\ line \in 1..(Cardinality(Newlines) + 1)
  /\ Slice(input, LineStart(line) + column - 1,
           LineStart(line) + column - 1 + Len(TokenText(t))) = TokenText(t)
  /\ \A n \in Newlines : ~(LineStart(line) <= n /\ n < LineStart(line) + column - 1)

NamedTokens == {i \in DOMAIN Tokens : Tokens[i].tokenType # TokenType.EOF}

\* C26: the line of a token is the line its first character is in, counted
\* from 1, and its column the place of that character in the line, counted
\* from 1: so in the first line and in the lines after a newline.
TokensStandWhereTheySay ==
  pc = "parsed" =>
    \A i \in NamedTokens : StandsAt(Tokens[i], Tokens[i].line, Tokens[i].column)

\* What holds: the line is right everywhere and the column in the first
\* line; in the lines after a newline the column is one too large.
TokensStandOneColumnBefore ==
  pc = "parsed" =>
    \A i \in NamedTokens :
      StandsAt(Tokens[i], Tokens[i].line,
               IF Tokens[i].line = 1 THEN Tokens[i].column ELSE Tokens[i].column - 1)

\* The number of tokens the parser has taken from its lexer
Cursor(m) == m.p.lexer.read

\* The parsing function that runs
Running(m) == m.stack[Len(m.stack)]

\* The step starts a further iteration of a loop of the parser: of the loop
\* over the statements of the program, of the loop over the statements of a
\* block, or of the loop over the operators that follow an expression.  The
\* function has been through the loop before and calls the function that
\* the iteration is about.
Iterates(m, mNew) ==
  /\ m.stack # <<>>
  /\ Running(m).fn \in {"parseProgram", "parseBlockStatement", "parseExpression"}
  /\ Running(m).pc = 1
  /\ Len(mNew.stack) = Len(m.stack) + 1
  /\ (Running(m).fn = "parseExpression"
        => Running(mNew).fn \in {"parseInfixExpression", "parseCallExpression",
                                 "parseIndexExpression"})

CursorAdvances ==
  (pc = "parse" /\ pc' = "parse" /\ Iterates(parsing, parsing'))
    => Cursor(parsing') > Cursor(parsing)

\* C28: parseProgram returns for every input: each further iteration of the
\* loop over the statements of the program, of the loop over the statements
\* of a block and of the loop over the operators takes a token, so that the
\* parser comes to EOF.
ParserComesToAnEnd ==
  /\ [][CursorAdvances]_vars
  /\ <>(pc = "parsed" /\ parsing.stack = <<>> /\ parsing.p.cur.tokenType = TokenType.EOF)

\* The source of filter has been parsed: six blocks, three lets and calls
\* within calls.
ParserComesToAnEndWitness ==
  /\ pc = "parsed"
  /\ input = FilterSource
  /\ errors = <<>>
  /\ parsing.p.cur.tokenType = TokenType.EOF
  /\ Cursor(parsing) >= Len(Tokens)
  /\ Cardinality({n \in Nodes(Program) : n.node = "BlockStatement"}) = 6
====
